---------------------------- MODULE Spec2Model ----------------------------
(***************************************************************************)
(* A model of the ot2aat conversion scripts (src/Scripts).                 *)
(*                                                                         *)
(* Every script is a single-threaded batch program: an object is built,    *)
(* input is parsed into its fields, and a pass (partition, generate,       *)
(* compute_semantic_groups) is run over them.  The variable prog says      *)
(* which script a behaviour runs; the fields of the other scripts keep     *)
(* their empty initial values.                                             *)
(*                                                                         *)
(*   "part"  ClassPartitioner              (aar_to_mif_converter.py)       *)
(*   "mif"   MIFGenerator                  (aar_to_mif_converter.py)       *)
(*   "kerx"  AARToATIFConverter            (gpos_to_kerx_converter.py)     *)
(*   "atif"  AARToATIFConverter            (gposaar2kerxatif.py)           *)
(*   "sem"   OTToOT2AAT                    (gposfea2kerxaar.py)            *)
(*                                                                         *)
(* A Python dict (insertion ordered) is a sequence of records [k, v] with  *)
(* distinct keys; a Python list is a sequence; a Python set is a set, and  *)
(* iterating a set of strings follows hashOrder, the order the process's   *)
(* string hash seed gives (fixed within one process).  A line of emitted   *)
(* text is the sequence of its tokens.                                     *)
(***************************************************************************)
EXTENDS Integers, Sequences, FiniteSets, TLC

VARIABLES
    prog,               \* the script this behaviour runs
    hashOrder,          \* iteration order of a set of class names (hash seed)
    \* ---- aar_to_mif_converter.py
    classes,            \* ClassPartitioner.classes / MIFGenerator.classes
    glyph_memberships,  \* ClassPartitioner.glyph_memberships
    partitions,         \* ClassPartitioner.partitions
    lookups,            \* MIFGenerator.lookups
    output,             \* MIFGenerator.output
    \* ---- gpos_to_kerx_converter.py, gposaar2kerxatif.py
    mark_groups,        \* AARToATIFConverter.mark_groups
    bases,              \* AARToATIFConverter.bases
    mark2mark,          \* AARToATIFConverter.mark2mark
    distance_rules,     \* AARToATIFConverter.distance_rules
    original_content,   \* the @class lines of the content parsed so far
    blocks,             \* number of blocks parse_aar has read
    \* ---- gposfea2kerxaar.py
    ot_marks,           \* OTToOT2AAT.ot_marks
    base_attachments,   \* OTToOT2AAT.base_attachments
    ligature_attachments, \* OTToOT2AAT.ligature_attachments
    group_base_ys,      \* compute_semantic_groups: (class_group, median_y) list
    ot_class_to_semantic, \* OTToOT2AAT.ot_class_to_semantic
    semantic_groups,    \* OTToOT2AAT.semantic_groups
    pc,                 \* OTToOT2AAT.parse_file: statements read, passes done
    \* ---- aar_to_mif_converter.py: AARParser
    aar_content,        \* AARParser.content
    raised,             \* the exception that ended the call ("": none)
    \* ---- gsubfea2morxaar.py
    script_filter,      \* GSUBToAAR.script_filter
    all_lookups,        \* GSUBToAAR.all_lookups
    feature_order,      \* GSUBToAAR.feature_order
    global_classes,     \* GSUBToAAR.global_classes
    inline_classes,     \* GSUBToAAR.inline_classes
    class_counter,      \* GSUBToAAR.class_counter
    scan,               \* parse_contextual_substitution: its locals while it runs
    \* ---- the calls made so far and what they returned
    stderr,             \* the lines printed to sys.stderr
    returned            \* sequence of the values the pass returned, per call

varsMif  == <<classes, glyph_memberships, partitions, lookups, output>>
varsAtif == <<mark_groups, bases, mark2mark, distance_rules, original_content, blocks>>
varsSem  == <<ot_marks, base_attachments, ligature_attachments, group_base_ys,
              ot_class_to_semantic, semantic_groups, pc>>
varsAar  == <<aar_content, raised>>
varsGsub == <<script_filter, all_lookups, feature_order, global_classes, inline_classes,
              class_counter>>
vars     == <<prog, hashOrder, varsMif, varsAtif, varsSem, varsAar, varsGsub, scan,
              stderr, returned>>

----------------------------------------------------------------------------
(* Bounds of the model.                                                    *)

MaxClassLen == 2        \* glyphs listed in one @class line
MaxCalls    == 2        \* calls of a pass on one object

----------------------------------------------------------------------------
(* Python values.                                                          *)

SeqToSet(s) == {s[i] : i \in DOMAIN s}

SeqsUpTo(S, n) == UNION {[1..k -> S] : k \in 0..n}

\* Sequences over S without repetition: the possible key orders of a dict.
Orders(S) == {s \in UNION {[1..k -> S] : k \in 0..Cardinality(S)} :
                 \A i, j \in DOMAIN s : i # j => s[i] # s[j]}

\* All orders of the whole of S.
Perms(S) == {s \in [1..Cardinality(S) -> S] :
                 \A i, j \in DOMAIN s : i # j => s[i] # s[j]}

RECURSIVE Flatten(_)
Flatten(ss) == IF ss = <<>> THEN <<>> ELSE Head(ss) \o Flatten(Tail(ss))

\* dict: key in d
Has(d, key) == \E i \in DOMAIN d : d[i].k = key

\* dict: d[key]
Get(d, key) == d[CHOOSE i \in DOMAIN d : d[i].k = key].v

\* dict: d.get(key, dflt)
GetOr(d, key, dflt) == IF Has(d, key) THEN Get(d, key) ELSE dflt

\* dict: d[key] = val (an existing key keeps its position)
Put(d, key, val) ==
    IF Has(d, key)
    THEN [i \in DOMAIN d |-> IF d[i].k = key THEN [k |-> key, v |-> val] ELSE d[i]]
    ELSE Append(d, [k |-> key, v |-> val])

\* dict: list(d.keys())
Keys(d) == [i \in DOMAIN d |-> d[i].k]

\* The dicts over keys ks whose values are drawn from vals.
Dicts(ks, vals) ==
    UNION {{[i \in DOMAIN o |-> [k |-> o[i], v |-> f[i]]] : f \in [DOMAIN o -> vals]}
            : o \in Orders(ks)}

\* The fields of the scripts a behaviour does not run.
NoMif ==
    /\ classes = <<>> /\ glyph_memberships = <<>> /\ partitions = <<>>
    /\ lookups = <<>> /\ output = <<>>

NoAtif ==
    /\ mark_groups = <<>> /\ bases = <<>> /\ mark2mark = <<>>
    /\ distance_rules = <<>> /\ original_content = <<>> /\ blocks = 0

NoSem ==
    /\ ot_marks = <<>> /\ base_attachments = <<>> /\ ligature_attachments = <<>>
    /\ group_base_ys = <<>> /\ ot_class_to_semantic = <<>> /\ semantic_groups = <<>>
    /\ pc = [stmts |-> 0, done |-> FALSE]

NoAar == aar_content = <<>> /\ raised = ""

\* parse_contextual_substitution is not running
NoScan == scan = <<>>

NoGsub ==
    /\ script_filter = <<>> /\ all_lookups = <<>> /\ feature_order = <<>>
    /\ global_classes = <<>> /\ inline_classes = <<>> /\ class_counter = 0

----------------------------------------------------------------------------
(* aar_to_mif_converter.py: ClassPartitioner.                              *)

\* Class names (\w+ in AARParser._parse_classes), listed in sorted() order.
ClassNames == <<"A", "B">>

ClassNameSet == SeqToSet(ClassNames)

Glyphs == {"x", "y", "z"}

\* The position sorted() gives a class name.
NameRank(n) == CHOOSE i \in DOMAIN ClassNames : ClassNames[i] = n

\* sorted(S), S a set of class names
RECURSIVE Sorted(_)
Sorted(S) ==
    IF S = {} THEN <<>>
    ELSE LET m == CHOOSE x \in S : \A y \in S : NameRank(x) <= NameRank(y)
         IN  <<m>> \o Sorted(S \ {m})

\* '+'.join(names): the names with a "+" between neighbours
RECURSIVE Join(_)
Join(names) ==
    IF Len(names) <= 1 THEN names
    ELSE <<Head(names), "+">> \o Join(Tail(names))

\* signature = '+'.join(sorted(memberships))
Signature(memberships) == Join(Sorted(memberships))

\* The (glyph, class_name) pairs in the order the two nested loops visit them.
MembershipPairs(cls) ==
    Flatten([i \in DOMAIN cls |->
                [j \in DOMAIN cls[i].v |-> [g |-> cls[i].v[j], c |-> cls[i].k]]])

\* A membership entry that forgets the classes seen before (assigns, not adds).
AddMembershipOverwrite(gm, glyph, class_name) == Put(gm, glyph, {class_name})

\* self.glyph_memberships[glyph].add(class_name)   (a defaultdict(set))
AddMembership(gm, glyph, class_name) ==
    Put(gm, glyph, GetOr(gm, glyph, {}) \cup {class_name})

RECURSIVE BuildMemberships(_, _)
BuildMemberships(gm, pairs) ==
    IF pairs = <<>> THEN gm
    ELSE BuildMemberships(AddMembership(gm, Head(pairs).g, Head(pairs).c), Tail(pairs))

\* The second loop of partition(): each glyph is appended to its signature's list.
RECURSIVE BuildPartitions(_, _)
BuildPartitions(parts, gm) ==
    IF gm = <<>> THEN parts
    ELSE LET sig == Signature(Head(gm).v)
         IN  BuildPartitions(Put(parts, sig, Append(GetOr(parts, sig, <<>>), Head(gm).k)),
                             Tail(gm))

\* ClassPartitioner(classes), before any call
InitPart ==
    /\ prog = "part"
    /\ classes \in Dicts(ClassNameSet, SeqsUpTo(Glyphs, MaxClassLen))
    /\ glyph_memberships = <<>>
    /\ partitions = <<>>
    /\ lookups = <<>>
    /\ output = <<>>
    /\ hashOrder = ClassNames
    /\ NoAtif
    /\ NoAar
    /\ NoGsub
    /\ NoScan
    /\ stderr = <<>>
    /\ NoSem
    /\ returned = <<>>

\* ClassPartitioner.partition()
Partition ==
    /\ prog = "part"
    /\ Len(returned) < MaxCalls
    /\ glyph_memberships' = BuildMemberships(glyph_memberships, MembershipPairs(classes))
    /\ partitions' = BuildPartitions(partitions, glyph_memberships')
    /\ returned' = Append(returned, partitions')
    /\ UNCHANGED <<prog, hashOrder, scan, varsAar, varsGsub, stderr,
                   classes, lookups, output, varsAtif, varsSem>>

NextPart == Partition

SpecPart == InitPart /\ [][NextPart]_vars

----------------------------------------------------------------------------
(* C1.  ClassPartitioner.partition() returns partitions that are pairwise  *)
(* disjoint, whose union is the union of the glyphs of all input classes,  *)
(* and each glyph lies in exactly the partition whose signature names, in  *)
(* sorted order and joined by "+", the classes that contain the glyph.     *)

GlyphsOfClasses == UNION {SeqToSet(classes[i].v) : i \in DOMAIN classes}

ClassesContaining(g) ==
    {classes[i].k : i \in {j \in DOMAIN classes : g \in SeqToSet(classes[j].v)}}

\* sig reads n1 + n2 + ... + nk with n1 < n2 < ... < nk naming exactly S
IsSignatureOf(sig, S) ==
    /\ Len(sig) = 2 * Cardinality(S) - 1
    /\ \A i \in DOMAIN sig : (i % 2 = 0) => sig[i] = "+"
    /\ {sig[i] : i \in {j \in DOMAIN sig : j % 2 = 1}} = S
    /\ \A i, j \in DOMAIN sig :
          (i % 2 = 1 /\ j % 2 = 1 /\ i < j) => NameRank(sig[i]) < NameRank(sig[j])

C1_PartitionCorrect ==
    (prog = "part" /\ returned # <<>>) =>
        LET P == returned[Len(returned)]
        IN  /\ \A i, j \in DOMAIN P :
                  i # j => SeqToSet(P[i].v) \cap SeqToSet(P[j].v) = {}
            /\ UNION {SeqToSet(P[i].v) : i \in DOMAIN P} = GlyphsOfClasses
            /\ \A g \in GlyphsOfClasses : \A i \in DOMAIN P :
                  g \in SeqToSet(P[i].v) <=> IsSignatureOf(P[i].k, ClassesContaining(g))

\* The spec's example: A = {x, y}, B = {y, z} gives A -> {x}, A+B -> {y}, B -> {z}.
C1_Witness ==
    /\ prog = "part"
    /\ classes = <<[k |-> "A", v |-> <<"x", "y">>], [k |-> "B", v |-> <<"y", "z">>]>>
    /\ Len(returned) = 1
    /\ returned[1] = <<[k |-> <<"A">>, v |-> <<"x">>],
                        [k |-> <<"A", "+", "B">>, v |-> <<"y">>],
                        [k |-> <<"B">>, v |-> <<"z">>]>>

----------------------------------------------------------------------------
(* aar_to_mif_converter.py: MIFGenerator.                                  *)

MaxRules == 1           \* rules in one lookup block

\* _write_match_class: glyphs per line
MatchWidth == 10

\* str(n) for the small numbers the tables hold
NumStr(n) == <<"0", "1", "2", "3", "4", "5", "6", "7", "8", "9", "10", "11", "12",
               "13", "14", "15", "16">>[n + 1]

Take(s, n) == SubSeq(s, 1, IF Len(s) < n THEN Len(s) ELSE n)

Drop(s, n) == SubSeq(s, n + 1, Len(s))

\* Glyphs of the classes and rules a generator is given.
GenGlyphs == {"x", "y"}

\* A context element is its characters up to the name: "@A" is <<"@", "A">>.
ContextLists == {<< <<"@", "A">> >>, << <<"@", "B">> >>,
                 << <<"@", "A">>, <<"@", "B">> >>, << <<"y">> >>}

SimpleRules ==
    {[type |-> "simple", source |-> g, target |-> "x.alt"] : g \in GenGlyphs}

ContextualRules ==
    {[type |-> "contextual", context_type |-> t, context_classes |-> c,
      source |-> "x", target |-> "x.alt"] : t \in {"before", "after"}, c \in ContextLists}

LigatureRules ==
    {[type |-> "ligature", result |-> "f_i", components |-> <<"f", "i">>]}

One2ManyRules ==
    {[type |-> "one2many", source |-> g, targets |-> t] :
        g \in GenGlyphs, t \in {<<"a", "b">>, <<"c">>}}

ReorderRules ==
    {[type |-> "reorder", before |-> <<"x", "y">>, after |-> a] :
        a \in {<<"y", "x">>, <<"x", "z">>}}

\* Lookup(name, lookup_type, feature, rules)
LookupsOf(kind, rules) ==
    {[name |-> "L", lookup_type |-> kind, feature |-> "f", rules |-> r] :
        r \in SeqsUpTo(rules, MaxRules)}

LookupPool ==
    LookupsOf("simple", SimpleRules) \cup LookupsOf("contextual", ContextualRules)
    \cup LookupsOf("ligature", LigatureRules) \cup LookupsOf("one2many", One2ManyRules)
    \cup LookupsOf("reorder", ReorderRules)

\* The lookup lists a generator is built with: none, one, or a simple lookup
\* followed by a contextual one.
LookupLists ==
    {<<>>} \cup {<<l>> : l \in LookupPool}
    \cup {<<l1, l2>> : l1 \in LookupsOf("simple", SimpleRules),
                       l2 \in LookupsOf("contextual", ContextualRules)}

RuleLine == <<"// -------------------------------------------------------------------------------">>

\* _write_header
HeaderLines ==
    <<RuleLine, <<"//">>, <<"//  MIF file generated from AAR format">>,
      <<"//  Generated by aar_to_mif_converter.py">>, <<"//">>, RuleLine, <<>> >>

\* _write_section_header
SectionHeader(lookup) ==
    << <<>>, RuleLine, <<"// LOOKUP:", lookup.name>>, <<"// Feature:", lookup.feature>>,
       <<"// Type:", lookup.lookup_type>>, RuleLine, <<>> >>

\* The nine scalar fields of a subtable and the empty line after them.
TypeBlock(kind, lookup, dflt, exclusive) ==
    << <<"Type", kind>>, <<"Name", lookup.name>>, <<"Namecode", "8">>,
       <<"Setting", lookup.name>>, <<"Settingcode", "1">>, <<"Default", dflt>>,
       <<"Orientation", "HV">>, <<"Forward", "yes">>, <<"Exclusive", exclusive>>, <<>> >>

RulesOfType(rules, t) == SelectSeq(rules, LAMBDA r : r.type = t)

\* _generate_noncontextual
NoncontextualLines(lookup) ==
    SectionHeader(lookup) \o TypeBlock("Noncontextual", lookup, "no", "yes")
    \o [i \in DOMAIN RulesOfType(lookup.rules, "simple") |->
          <<RulesOfType(lookup.rules, "simple")[i].source,
            RulesOfType(lookup.rules, "simple")[i].target>>]
    \o << <<>> >>

\* _analyze_contextual_rules: the set of context classes that start with "@"
Predecessors(rules) ==
    {c \in UNION {SeqToSet(RulesOfType(rules, "contextual")[i].context_classes) :
                    i \in DOMAIN RulesOfType(rules, "contextual")} : Head(c) = "@"}

\* pred.lstrip('@')
RECURSIVE LStrip(_)
LStrip(e) == IF e # <<>> /\ Head(e) = "@" THEN LStrip(Tail(e)) ELSE e

\* for pred in predecessors: the set's elements in the order the hash seed gives
IterPreds(preds) ==
    LET named == SelectSeq(hashOrder, LAMBDA n : <<"@", n>> \in preds)
    IN  [i \in DOMAIN named |-> <<"@", named[i]>>]

\* The loop of _create_contextual_partitions: each referenced class that is
\* defined becomes the partition PRED_<name>, holding the class's own glyph list.
RECURSIVE PredPartitions(_, _)
PredPartitions(parts, preds) ==
    IF preds = <<>> THEN parts
    ELSE LET class_name == LStrip(Head(preds))
         IN  PredPartitions(
                 IF Len(class_name) = 1 /\ Has(classes, class_name[1])
                 THEN Put(parts, <<"PRED_", class_name[1]>>, Get(classes, class_name[1]))
                 ELSE parts,
                 Tail(preds))

\* _create_contextual_partitions
CreateContextualPartitions(preds) == PredPartitions(<<>>, IterPreds(preds))

\* The continuation lines of _write_match_class if the loop ran once only
ContinuationLinesOnce(remaining) ==
    IF remaining = <<>> THEN <<>>
    ELSE << <<"+">> \o Take(remaining, MatchWidth) >>

\* The continuation lines of _write_match_class
RECURSIVE ContinuationLines(_)
ContinuationLines(remaining) ==
    IF remaining = <<>> THEN <<>>
    ELSE << <<"+">> \o Take(remaining, MatchWidth) >>
         \o ContinuationLines(Drop(remaining, MatchWidth))

\* _write_match_class(num, glyphs, comment)
WriteMatchClass(num, glyphs, comment) ==
    LET line  == <<"Match", NumStr(num)>> \o Take(glyphs, MatchWidth)
        lines == IF Len(glyphs) > MatchWidth
                 THEN <<line>> \o ContinuationLines(Drop(glyphs, MatchWidth))
                 ELSE <<line>>
        last  == Len(lines)
    IN  (IF comment # <<>>
         THEN [lines EXCEPT ![last] = lines[last] \o comment]
         ELSE lines) \o << <<>> >>

\* The Match lines of _generate_contextual
MatchClassLines(parts) ==
    Flatten([i \in DOMAIN parts |-> WriteMatchClass(i, parts[i].v, <<"//">> \o parts[i].k)])

\* _generate_state_machine with the SawMatch1 row one cell short
StateMachineLinesShort(rules, parts) ==
    LET num_matches == Len(parts)
    IN  << <<"EOT", "OOB", "DEL", "EOL">>
              \o Flatten([i \in 1..num_matches |-> <<"Match", NumStr(i)>>]),
           <<"StartText", "1", "1", "1", "1">>
              \o [i \in 1..num_matches |-> IF i = 1 THEN "2" ELSE "1"],
           <<"SawMatch1", "1", "1", "3", "1">>
              \o [i \in 1..(num_matches - 1) |->
                    IF i = 1 THEN "2" ELSE IF i = num_matches THEN "4" ELSE "1"],
           <<>>,
           <<"GoTo", "Mark?", "Advance?", "SubstMark", "SubstCurrent">>,
           <<"1", "StartText", "no", "yes", "none", "none">>,
           <<"2", "SawMatch1", "yes", "yes", "none", "none">>,
           <<"3", "SawMatch1", "no", "yes", "none", "none">>,
           <<"4", "StartText", "no", "yes", "none", "doSubst">>,
           <<>>,
           <<"doSubst">> >>
        \o [i \in DOMAIN RulesOfType(rules, "contextual") |->
              <<RulesOfType(rules, "contextual")[i].source,
                RulesOfType(rules, "contextual")[i].target>>]

\* _generate_state_machine
StateMachineLines(rules, parts) ==
    LET num_matches == Len(parts)
    IN  << <<"EOT", "OOB", "DEL", "EOL">>
              \o Flatten([i \in 1..num_matches |-> <<"Match", NumStr(i)>>]),
           <<"StartText", "1", "1", "1", "1">>
              \o [i \in 1..num_matches |-> IF i = 1 THEN "2" ELSE "1"],
           <<"SawMatch1", "1", "1", "3", "1">>
              \o [i \in 1..num_matches |->
                    IF i = 1 THEN "2" ELSE IF i = num_matches THEN "4" ELSE "1"],
           <<>>,
           <<"GoTo", "Mark?", "Advance?", "SubstMark", "SubstCurrent">>,
           <<"1", "StartText", "no", "yes", "none", "none">>,
           <<"2", "SawMatch1", "yes", "yes", "none", "none">>,
           <<"3", "SawMatch1", "no", "yes", "none", "none">>,
           <<"4", "StartText", "no", "yes", "none", "doSubst">>,
           <<>>,
           <<"doSubst">> >>
        \o [i \in DOMAIN RulesOfType(rules, "contextual") |->
              <<RulesOfType(rules, "contextual")[i].source,
                RulesOfType(rules, "contextual")[i].target>>]

\* _generate_contextual
ContextualLines(lookup) ==
    LET parts == CreateContextualPartitions(Predecessors(lookup.rules))
    IN  SectionHeader(lookup) \o TypeBlock("Contextual", lookup, "yes", "no")
        \o MatchClassLines(parts) \o StateMachineLines(lookup.rules, parts)
        \o << <<>> >>

\* _generate_ligature
LigatureLines(lookup) ==
    SectionHeader(lookup) \o TypeBlock("Ligature", lookup, "yes", "no")
    \o [i \in DOMAIN RulesOfType(lookup.rules, "ligature") |->
          <<RulesOfType(lookup.rules, "ligature")[i].result>>
          \o RulesOfType(lookup.rules, "ligature")[i].components]
    \o << <<>> >>

\* _generate_insertion
InsertionLines(lookup) ==
    LET o2m == RulesOfType(lookup.rules, "one2many")
    IN  SectionHeader(lookup) \o TypeBlock("Insertion", lookup, "yes", "no")
        \o << <<"Match1">> \o [i \in DOMAIN o2m |-> o2m[i].source],
              <<>>,
              <<"EOT", "OOB", "DEL", "EOL", "Match1">>,
              <<"StartText", "1", "1", "1", "1", "2">>,
              <<"StartLine", "1", "1", "1", "1", "2">>,
              <<>>,
              <<"GoTo", "Mark?", "Advance?", "InsertMark", "InsertCurrent">>,
              <<"1", "StartText", "no", "yes", "none", "none">>,
              <<"2", "StartText", "no", "yes", "none", "doInsert">>,
              <<>>,
              <<"doInsert">>,
              <<"IsKashidaLike", "yes">>,
              <<"InsertBefore", "no">>,
              IF lookup.rules # <<>>
              THEN <<"Glyphs">> \o lookup.rules[1].targets
              ELSE <<>>,
              <<>> >>

\* _generate_rearrangement
RearrangementLines(lookup) ==
    SectionHeader(lookup) \o TypeBlock("Rearrangement", lookup, "yes", "no")
    \o IF lookup.rules # <<>>
       THEN LET rule   == lookup.rules[1]
                match1 == IF rule.before # <<>> THEN <<rule.before[1]>> ELSE <<>>
                match2 == IF Len(rule.before) > 1 THEN <<rule.before[2]>> ELSE <<>>
            IN  << <<"Match1">> \o match1,
                   <<"Match2">> \o match2,
                   <<>>,
                   <<"EOT", "OOB", "DEL", "EOL", "Match1", "Match2">>,
                   <<"StartText", "1", "1", "1", "1", "2", "1">>,
                   <<"StartLine", "1", "1", "1", "1", "2", "1">>,
                   <<"SawMatch1", "1", "1", "3", "1", "2", "4">>,
                   <<>>,
                   <<"GoTo", "MarkFirst?", "MarkLast?", "Advance?", "DoThis">>,
                   <<"1", "StartText", "no", "no", "yes", "none">>,
                   <<"2", "SawMatch1", "yes", "no", "yes", "none">>,
                   <<"3", "SawMatch1", "no", "no", "yes", "none">>,
                   <<"4", "StartText", "no", "yes", "yes", "xD->Dx">>,
                   <<>> >>
       ELSE <<>>

\* The dispatch of generate() on lookup_type
LookupLines(lookup) ==
    CASE lookup.lookup_type = "simple"     -> NoncontextualLines(lookup)
      [] lookup.lookup_type = "contextual" -> ContextualLines(lookup)
      [] lookup.lookup_type = "ligature"   -> LigatureLines(lookup)
      [] lookup.lookup_type = "one2many"   -> InsertionLines(lookup)
      [] lookup.lookup_type = "reorder"    -> RearrangementLines(lookup)
      [] OTHER                             -> <<>>

\* generate() that keeps the lines of the call before
StartOutputKeep(out) == out

\* self.output = []
StartOutput(out) == <<>>

\* MIFGenerator(classes, lookups), before any call
InitMif ==
    /\ prog = "mif"
    /\ classes \in Dicts(ClassNameSet, SeqsUpTo(GenGlyphs, MaxClassLen))
    /\ lookups \in LookupLists
    /\ hashOrder \in Perms(ClassNameSet)
    /\ glyph_memberships = <<>>
    /\ partitions = <<>>
    /\ output = <<>>
    /\ NoAtif
    /\ NoAar
    /\ NoGsub
    /\ NoScan
    /\ stderr = <<>>
    /\ NoSem
    /\ returned = <<>>

\* MIFGenerator.generate()
Generate ==
    /\ prog = "mif"
    /\ Len(returned) < MaxCalls
    /\ output' = StartOutput(output) \o HeaderLines
                 \o Flatten([i \in DOMAIN lookups |-> LookupLines(lookups[i])])
    /\ returned' = Append(returned, output')
    /\ UNCHANGED <<prog, hashOrder, scan, varsAar, varsGsub, stderr,
                   classes, glyph_memberships, partitions, lookups,
                   varsAtif, varsSem>>

NextMif == Generate

SpecMif == InitMif /\ [][NextMif]_vars

----------------------------------------------------------------------------
(* Reading emitted MIF text back.                                          *)

\* The lines of text that list a match class: a Match line and its continuations.
IsMatchLine(line) == line # <<>> /\ Head(line) = "Match"

\* The glyphs a Match line lists (the tokens before the "//" comment).
RECURSIVE UpToComment(_)
UpToComment(toks) ==
    IF toks = <<>> \/ Head(toks) = "//" THEN <<>>
    ELSE <<Head(toks)>> \o UpToComment(Tail(toks))

MatchGlyphs(line) == SeqToSet(UpToComment(Drop(line, 2)))

\* The index of the last section header at or before line i (0: none).
SectionOf(text, i) ==
    Cardinality({j \in 1..i : text[j] # <<>> /\ Head(text[j]) = "// LOOKUP:"})

----------------------------------------------------------------------------
(* C2.  In every Contextual subtable that generate() emits, the MatchN     *)
(* classes are pairwise disjoint: no glyph is listed in two match classes  *)
(* of the same subtable.                                                   *)

C2_MatchClassesDisjoint ==
    (prog = "mif" /\ returned # <<>>) =>
        LET text == returned[Len(returned)]
        IN  \A i, j \in DOMAIN text :
              (/\ i < j
               /\ IsMatchLine(text[i]) /\ IsMatchLine(text[j])
               /\ SectionOf(text, i) = SectionOf(text, j))
              => MatchGlyphs(text[i]) \cap MatchGlyphs(text[j]) = {}

----------------------------------------------------------------------------
(* AARToATIFConverter: gpos_to_kerx_converter.py (prog = "kerx") and its   *)
(* earlier variant gposaar2kerxatif.py (prog = "atif").                    *)

MaxBlocks == 3          \* blocks of the content parse_aar reads
MaxMarks  == 1          \* mark lines in one @mark_group block

\* Glyph names of the positioning input, listed in sorted() order.
AtifGlyphs == <<"a", "b">>

AtifGlyphSet == SeqToSet(AtifGlyphs)

GroupNames == {"TOP", "BOTTOM"}

\* <x, y> of a mark line and of a base or mark2mark anchor line
MarkPoints == {<<0, 500>>}

AnchorPoints == {<<250, 700>>, <<250, 900>>}

\* str(n) for the coordinates and distances of the input
IntStr(n) ==
    CASE n = 0 -> "0" [] n = 500 -> "500" [] n = 250 -> "250" [] n = 700 -> "700"
      [] n = -50 -> "-50" [] n = 900 -> "900"

\* (glyph, x, y)
Marks == {[glyph |-> g, x |-> p[1], y |-> p[2]] : g \in AtifGlyphSet, p \in MarkPoints}

\* the lines of one @mark_group block
MarkLists == SeqsUpTo(Marks, MaxMarks)

\* the lines of one @base or @mark2mark block: {group_name: (x, y)}
AnchorDicts == Dicts(GroupNames, AnchorPoints)

\* @distance glyph1 target distance: the target is a glyph or "@" and a class name
DistanceTargets == {<<"b">>, <<"@", "K">>}

\* @class NAME = glyphs
ClassLines == {[k |-> "K", v |-> <<"a", "b">>]}

IsAtif == prog \in {"kerx", "atif"}

\* AARToATIFConverter()
InitAtif ==
    /\ prog \in {"kerx", "atif"}
    /\ hashOrder = ClassNames
    /\ NoMif
    /\ NoAtif
    /\ NoAar
    /\ NoGsub
    /\ NoScan
    /\ stderr = <<>>
    /\ NoSem
    /\ returned = <<>>

\* parse_aar: a @mark_group block
ParseMarkGroup ==
    /\ IsAtif /\ returned = <<>> /\ blocks < MaxBlocks
    /\ \E group_name \in GroupNames, marks \in MarkLists :
          mark_groups' = Put(mark_groups, group_name, marks)
    /\ blocks' = blocks + 1
    /\ UNCHANGED <<prog, hashOrder, scan, varsAar, varsGsub, stderr,
                   varsMif, bases, mark2mark, distance_rules,
                   original_content, varsSem, returned>>

\* parse_aar: a @distance line
ParseDistance ==
    /\ IsAtif /\ returned = <<>> /\ blocks < MaxBlocks
    /\ \E target \in DistanceTargets :
          distance_rules' = Append(distance_rules,
              IF prog = "kerx"
              THEN [glyph1 |-> "a", target |-> target, distance |-> -50]
              ELSE [glyph1 |-> "a", target |-> target, distance |-> -50,
                    direction |-> "horizontal"])
    /\ blocks' = blocks + 1
    /\ UNCHANGED <<prog, hashOrder, scan, varsAar, varsGsub, stderr,
                   varsMif, mark_groups, bases, mark2mark,
                   original_content, varsSem, returned>>

\* parse_aar: a @class line (skipped; expand_class reads it from the content)
ParseClass ==
    /\ IsAtif /\ returned = <<>> /\ blocks < MaxBlocks
    /\ \E line \in ClassLines : original_content' = Append(original_content, line)
    /\ blocks' = blocks + 1
    /\ UNCHANGED <<prog, hashOrder, scan, varsAar, varsGsub, stderr,
                   varsMif, mark_groups, bases, mark2mark,
                   distance_rules, varsSem, returned>>

\* parse_aar: a @base block
ParseBase ==
    /\ IsAtif /\ returned = <<>> /\ blocks < MaxBlocks
    /\ \E glyph \in AtifGlyphSet, anchors \in AnchorDicts :
          bases' = Put(bases, glyph, anchors)
    /\ blocks' = blocks + 1
    /\ UNCHANGED <<prog, hashOrder, scan, varsAar, varsGsub, stderr,
                   varsMif, mark_groups, mark2mark, distance_rules,
                   original_content, varsSem, returned>>

\* parse_aar: a @mark2mark block
ParseMark2Mark ==
    /\ IsAtif /\ returned = <<>> /\ blocks < MaxBlocks
    /\ \E glyph \in AtifGlyphSet, anchors \in AnchorDicts :
          mark2mark' = Put(mark2mark, glyph, anchors)
    /\ blocks' = blocks + 1
    /\ UNCHANGED <<prog, hashOrder, scan, varsAar, varsGsub, stderr,
                   varsMif, mark_groups, bases, distance_rules,
                   original_content, varsSem, returned>>

DashLine == <<"// -------------------------------------------------------------------------------">>

SubtableOpen == <<"control point kerning subtable {">>

\* the header comment of generate_atif
AtifHeader ==
    IF prog = "kerx"
    THEN <<DashLine, <<"//">>, <<"//  Generated ATIF for mark positioning">>,
           <<"//  Converted from AAR format">>, <<"//">>,
           <<"//  AAT Anchor Indexing Rules:">>,
           <<"//  - Indices must be sequential (0, 1, 2...) with NO gaps">>,
           <<"//  - Each glyph can only define each index ONCE across ALL tables">>,
           <<"//  - Table 1 (mark-to-base): marks use [0], bases use [0, 1, 2...]">>,
           <<"//  - Table 2 (mark-to-mark): attaching marks use [1], base marks use [1]">>,
           <<"//">>, DashLine, <<>> >>
    ELSE <<DashLine, <<"//">>, <<"//  Generated ATIF for mark positioning">>,
           <<"//  Converted from AAR format">>, <<"//">>, DashLine, <<>> >>

\* expand_class: the glyphs of the first @class line of the content with that name
ExpandClass(content, class_name) ==
    LET name == LStrip(class_name)
        hits == SelectSeq(content, LAMBDA line : name = <<line.k>>)
    IN  IF hits # <<>> THEN hits[1].v ELSE <<>>

\* the kerning pairs of one distance rule
PairLines(rule) ==
    LET targets == IF Head(rule.target) = "@"
                   THEN ExpandClass(original_content, rule.target)
                   ELSE rule.target
    IN  [i \in DOMAIN targets |->
            <<rule.glyph1, "+", targets[i], "=>", IntStr(rule.distance), ";">>]

\* Table 0: the kerning list
Table0Lines ==
    IF distance_rules = <<>> THEN <<>>
    ELSE <<DashLine,
           IF prog = "kerx"
           THEN <<"// Table 0: Horizontal kerning (distance adjustments)">>
           ELSE <<"// Table 0: Distance kerning (simple pairs)">>,
           DashLine, <<>>, <<"kerning list {">>, <<"layout is horizontal;">>,
           <<"kerning is horizontal;">>, <<>> >>
         \o Flatten([i \in DOMAIN distance_rules |-> PairLines(distance_rules[i])])
         \o << <<"};">>, <<>> >>

\* f"    anchor {glyph}[{idx}] := ({x}, {y});"
AnchorLine(glyph, idx, x, y) == <<"anchor", glyph, NumStr(idx), IntStr(x), IntStr(y)>>

\* Table 1: anchor glyph[0] for every mark line of every group
MarkAnchorLines ==
    Flatten([g \in DOMAIN mark_groups |->
        [m \in DOMAIN mark_groups[g].v |->
            AnchorLine(mark_groups[g].v[m].glyph, 0,
                       mark_groups[g].v[m].x, mark_groups[g].v[m].y)]])

\* group_names = list(self.mark_groups.keys())
group_names == Keys(mark_groups)

\* The anchors of one base numbered 0, 1, ... over the groups the base has
BaseAnchorsOfDense(anchors, base_glyph) ==
    LET idxs == SelectSeq([i \in DOMAIN group_names |-> i],
                          LAMBDA i : Has(anchors, group_names[i]))
    IN  [n \in DOMAIN idxs |->
            AnchorLine(base_glyph, n - 1, Get(anchors, group_names[idxs[n]])[1],
                       Get(anchors, group_names[idxs[n]])[2])]

\* Table 1: the anchors of one base, indexed by the position of the group
BaseAnchorsOf(anchors, base_glyph) ==
    LET idxs == SelectSeq([i \in DOMAIN group_names |-> i],
                          LAMBDA i : Has(anchors, group_names[i]))
    IN  [n \in DOMAIN idxs |->
            AnchorLine(base_glyph, idxs[n] - 1, Get(anchors, group_names[idxs[n]])[1],
                       Get(anchors, group_names[idxs[n]])[2])]

BaseAnchorLines ==
    Flatten([b \in DOMAIN bases |-> BaseAnchorsOf(bases[b].v, bases[b].k)])

\* f"marks_{group_name}", f"sawMark_{group_name}", f"snapMark_{group_name}"
MarksClass(g) == CASE g = "TOP" -> "marks_TOP" [] g = "BOTTOM" -> "marks_BOTTOM"

SawMark(g) == CASE g = "TOP" -> "sawMark_TOP" [] g = "BOTTOM" -> "sawMark_BOTTOM"

SnapMark(g) == CASE g = "TOP" -> "snapMark_TOP" [] g = "BOTTOM" -> "snapMark_BOTTOM"

\* class marks_<group> { glyphs };  for every group
MarkClassLines ==
    [g \in DOMAIN mark_groups |->
        <<"class", MarksClass(mark_groups[g].k)>>
        \o [m \in DOMAIN mark_groups[g].v |-> mark_groups[g].v[m].glyph]]

\* A transition sawBase that does not mark the glyph
SawBaseLinesNoMark ==
    << <<"transition", "sawBase", "{">>, <<"change state to", "withBase">>,
       <<"};">>, <<>> >>

\* transition sawBase
SawBaseLines ==
    << <<"transition", "sawBase", "{">>, <<"change state to", "withBase">>,
       <<"mark glyph;">>, <<"};">>, <<>> >>

\* Table 1: the mark-to-base subtable
Table1Lines ==
    <<DashLine, <<"// Table 1: Mark-to-base positioning">>, DashLine, <<>>,
      SubtableOpen, <<"layout is horizontal;">>, <<"kerning is horizontal;">> >>
    \o (IF prog = "atif"
        THEN << <<"uses anchor points;">>, <<"scan glyphs forward;">> >> ELSE <<>>)
    \o << <<>>,
          IF prog = "kerx"
          THEN <<"// Mark anchors (all use index [0] for attaching to bases)">>
          ELSE <<"// Mark anchors (all use index [0])">> >>
    \o MarkAnchorLines
    \o << <<>>,
          IF prog = "kerx"
          THEN <<"// Base anchors (sequential indices per mark class)">>
          ELSE <<"// Base anchors (sequential indices per semantic)">> >>
    \o BaseAnchorLines
    \o << <<>>, <<"class", "bases">> \o Keys(bases), <<>> >>
    \o MarkClassLines
    \o << <<>>,
          <<"state", "Start", "{">>, <<"bases", ":", "sawBase">>, <<"};">>, <<>>,
          <<"state", "withBase", "{">> >>
    \o [g \in DOMAIN group_names |->
          <<MarksClass(group_names[g]), ":", SawMark(group_names[g])>>]
    \o << <<"bases", ":", "sawBase">>, <<"};">>, <<>> >>
    \o SawBaseLines
    \o Flatten([g \in DOMAIN group_names |->
          << <<"transition", SawMark(group_names[g]), "{">>,
             <<"change state to", "withBase">>,
             <<"kerning action:", SnapMark(group_names[g])>>, <<"};">>, <<>> >>])
    \o Flatten([g \in DOMAIN group_names |->
          << <<"anchor point action", SnapMark(group_names[g]), "{">>,
             <<"marked glyph point:", NumStr(g - 1)>>,
             <<"current glyph point:", "0">>, <<"};">> >>
          \o (IF g - 1 < Len(group_names) - 1 THEN << <<>> >> ELSE <<>>)])
    \o << <<"};">>, <<>> >>

\* the groups some mark2mark record has an anchor for
attaching_groups ==
    UNION {SeqToSet(Keys(mark2mark[i].v)) : i \in DOMAIN mark2mark}

marks_serving_as_bases == SeqToSet(Keys(mark2mark))

\* the glyphs of the mark lines of a group
GroupGlyphs(g) == {mark_groups[g].v[m].glyph : m \in DOMAIN mark_groups[g].v}

\* the marks of the attaching groups that have no mark2mark record of their own
marks_only_attaching ==
    UNION {GroupGlyphs(g) : g \in {h \in DOMAIN mark_groups :
                                       mark_groups[h].k \in attaching_groups}}
    \ marks_serving_as_bases

\* sorted(S) for a set of glyph names
SortedGlyphs(S) == SelectSeq(AtifGlyphs, LAMBDA g : g \in S)

\* the inner loops of lines 323-327: in every group, the first mark line of the glyph
AttachingAnchorsOf(glyph) ==
    Flatten([g \in DOMAIN mark_groups |->
        LET hits == SelectSeq(mark_groups[g].v, LAMBDA m : m.glyph = glyph)
        IN  IF hits # <<>> THEN <<AnchorLine(glyph, 1, hits[1].x, hits[1].y)>> ELSE <<>>])

\* anchor glyph[1] for the marks that only attach
AttachingAnchorLines ==
    IF marks_only_attaching = {} THEN <<>>
    ELSE << <<"// Attaching mark anchors (use index [1] for attaching to other marks)">>,
            <<"// ONLY marks that don't also serve as bases">> >>
         \o Flatten([i \in DOMAIN SortedGlyphs(marks_only_attaching) |->
                       AttachingAnchorsOf(SortedGlyphs(marks_only_attaching)[i])])
         \o << <<>> >>

\* anchor glyph[1] for every anchor of every mark2mark record
BaseMarkAnchorLines ==
    Flatten([b \in DOMAIN mark2mark |->
        [a \in DOMAIN mark2mark[b].v |->
            AnchorLine(mark2mark[b].k, 1, mark2mark[b].v[a].v[1], mark2mark[b].v[a].v[2])]])

Table2Banner ==
    <<DashLine, <<"// Table 2: Mark-to-mark positioning">>, DashLine, <<>>,
      SubtableOpen, <<"layout is horizontal;">>, <<"kerning is horizontal;">> >>

StartStateLines == << <<"state", "Start", "{">>, <<"bases", ":", "sawBase">>, <<"};">>, <<>> >>

\* Table 2 of gpos_to_kerx_converter.py
Table2Kerx ==
    IF mark2mark = <<>> THEN <<>>
    ELSE Table2Banner \o << <<>> >>
         \o AttachingAnchorLines
         \o << <<"// Base mark anchors (use index [1] for providing stacking points)">> >>
         \o BaseMarkAnchorLines
         \o << <<>>, <<"class", "bases">> \o Keys(mark2mark), <<>> >>
         \o (IF marks_only_attaching # {}
             THEN << <<"class", "marks">> \o SortedGlyphs(marks_only_attaching), <<>> >>
             ELSE <<>>)
         \o StartStateLines
         \o << <<"state", "withBase", "{">> >>
         \o (IF marks_only_attaching # {} THEN << <<"marks", ":", "sawMark">> >> ELSE <<>>)
         \o << <<"bases", ":", "sawBase">>, <<"};">>, <<>> >>
         \o SawBaseLines
         \o (IF marks_only_attaching # {}
             THEN << <<"transition", "sawMark", "{">>, <<"change state to", "Start">>,
                     <<"kerning action:", "snapMark">>, <<"};">>, <<>> >>
             ELSE <<>>)
         \o << <<"anchor point action", "snapMark", "{">>,
               <<"marked glyph point:", "1">>,
               <<"current glyph point:", "1">>, <<"};">>, <<"};">> >>

\* Table 2 of gposaar2kerxatif.py
Table2Atif ==
    IF mark2mark = <<>> THEN <<>>
    ELSE Table2Banner
         \o << <<"uses anchor points;">>, <<"scan glyphs backward;">>, <<>>,
               <<"// Mark-to-mark base anchors (use index [1])">>,
               <<"// Note: Attaching anchors [0] already defined in Table 1">> >>
         \o BaseMarkAnchorLines
         \o << <<>>, <<"class", "bases">> \o Keys(mark2mark), <<>> >>
         \o MarkClassLines
         \o << <<>> >>
         \o StartStateLines
         \o << <<"state", "withBase", "{">> >>
         \o [g \in DOMAIN group_names |-> <<MarksClass(group_names[g]), ":", "sawMark">>]
         \o << <<"bases", ":", "sawBase">>, <<"};">>, <<>> >>
         \o SawBaseLines
         \o << <<"transition", "sawMark", "{">>, <<"change state to", "Start">>,
               <<"kerning action:", "snapMark">>, <<"};">>, <<>>,
               <<"anchor point action", "snapMark", "{">>,
               <<"marked glyph point:", "1">>,
               <<"current glyph point:", "0">>, <<"};">>, <<"};">> >>

\* the text generate_atif returns ('\n'.join(output), line by line)
AtifText ==
    AtifHeader \o Table0Lines \o Table1Lines
    \o (IF prog = "kerx" THEN Table2Kerx ELSE Table2Atif)

\* output = []
NewOutput(prev) == <<>>

\* generate_atif(original_content)
GenerateAtif ==
    /\ IsAtif /\ Len(returned) < MaxCalls
    /\ returned' = Append(returned, NewOutput(returned) \o AtifText)
    /\ UNCHANGED <<prog, hashOrder, scan, varsAar, varsGsub, stderr,
                   varsMif, varsAtif, varsSem>>

NextAtif ==
    \/ ParseMarkGroup
    \/ ParseDistance
    \/ ParseClass
    \/ ParseBase
    \/ ParseMark2Mark
    \/ GenerateAtif

SpecAtif == InitAtif /\ [][NextAtif]_vars

\* MIFGenerator.generate() and both generate_atif() variants, each on its own object
InitEmit == InitMif \/ InitAtif

NextEmit == NextMif \/ NextAtif

SpecEmit == InitEmit /\ [][NextEmit]_vars

----------------------------------------------------------------------------
(* gposfea2kerxaar.py: OTToOT2AAT.parse_file and compute_semantic_groups.  *)

MaxStatements     == 5  \* markClass and pos statements of the feature file
MaxMarkStatements == 4  \* markClass statements among them

\* OpenType mark class names (\w+), listed in sorted() order
OTClasses == <<"A", "B", "C", "D">>

OTClassSet == SeqToSet(OTClasses)

\* mark glyph names, listed in sorted() order
MarkGlyphs == <<"m", "n">>

MarkYs == {100, 300}

\* (glyph, x, y) of a markClass statement
MarkTriples == {[glyph |-> g, x |-> 0, y |-> y] : g \in SeqToSet(MarkGlyphs), y \in MarkYs}

\* the classes pos base and pos ligature statements attach
AttachClasses == {"A", "B"}

\* pos base b <anchor 0 600> mark @CLS;
BaseStatements == {<<[ot_class |-> c, x |-> 0, y |-> 600]>> : c \in AttachClasses}

\* pos ligature l <anchor 0 100> mark @CLS ligComponent <anchor 0 200> mark @CLS;
LigatureStatements ==
    {<<[ot_class |-> c, x |-> 0, y |-> 100], [ot_class |-> c, x |-> 0, y |-> 200]>> :
        c \in AttachClasses}

Reversed(seq) == [i \in DOMAIN seq |-> seq[Len(seq) + 1 - i]]

\* OTToOT2AAT(); the hash seed of the process fixes the order of sets of names
InitSem ==
    /\ prog = "sem"
    /\ hashOrder \in {OTClasses, Reversed(OTClasses)}
    /\ NoMif
    /\ NoAtif
    /\ NoAar
    /\ NoGsub
    /\ NoScan
    /\ stderr = <<>>
    /\ ot_marks = <<>> /\ base_attachments = <<>> /\ ligature_attachments = <<>>
    /\ group_base_ys = <<>> /\ ot_class_to_semantic = <<>> /\ semantic_groups = <<>>
    /\ pc = [stmts |-> 0, done |-> FALSE]
    /\ returned = <<>>

MarkStatementsRead == Len(Flatten([i \in DOMAIN ot_marks |-> ot_marks[i].v]))

\* parse_markclass: self.ot_marks[ot_class].append((glyph, x, y))
ParseMarkClass ==
    /\ prog = "sem" /\ ~pc.done /\ pc.stmts < MaxStatements
    /\ MarkStatementsRead < MaxMarkStatements
    /\ \E ot_class \in OTClassSet, mark \in MarkTriples :
          ot_marks' = Put(ot_marks, ot_class, Append(GetOr(ot_marks, ot_class, <<>>), mark))
    /\ pc' = [pc EXCEPT !.stmts = @ + 1]
    /\ UNCHANGED <<prog, hashOrder, scan, varsAar, varsGsub, stderr,
                   varsMif, varsAtif, base_attachments,
                   ligature_attachments, group_base_ys, ot_class_to_semantic,
                   semantic_groups, returned>>

\* parse_base: self.base_attachments[glyph].append((ot_class, x, y)) per anchor
ParseBaseAttachments ==
    /\ prog = "sem" /\ ~pc.done /\ pc.stmts < MaxStatements
    /\ \E matches \in BaseStatements :
          base_attachments' =
              Put(base_attachments, "b", GetOr(base_attachments, "b", <<>>) \o matches)
    /\ pc' = [pc EXCEPT !.stmts = @ + 1]
    /\ UNCHANGED <<prog, hashOrder, scan, varsAar, varsGsub, stderr,
                   varsMif, varsAtif, ot_marks, ligature_attachments,
                   group_base_ys, ot_class_to_semantic, semantic_groups, returned>>

\* self.ligature_attachments[ligature][ot_class].append((x, y)) for each match
RECURSIVE AddLigatureAnchors(_, _)
AddLigatureAnchors(anchors, matches) ==
    IF matches = <<>> THEN anchors
    ELSE LET a == Head(matches)
         IN  AddLigatureAnchors(
                 Put(anchors, a.ot_class,
                     Append(GetOr(anchors, a.ot_class, <<>>), [x |-> a.x, y |-> a.y])),
                 Tail(matches))

\* parse_ligature
ParseLigature ==
    /\ prog = "sem" /\ ~pc.done /\ pc.stmts < MaxStatements
    /\ \E matches \in LigatureStatements :
          ligature_attachments' =
              Put(ligature_attachments, "l",
                  AddLigatureAnchors(GetOr(ligature_attachments, "l", <<>>), matches))
    /\ pc' = [pc EXCEPT !.stmts = @ + 1]
    /\ UNCHANGED <<prog, hashOrder, scan, varsAar, varsGsub, stderr,
                   varsMif, varsAtif, ot_marks, base_attachments,
                   group_base_ys, ot_class_to_semantic, semantic_groups, returned>>

\* Step 1: the classes whose mark list holds the triple
mark_identity_to_classes(mark_id) ==
    {ot_marks[i].k : i \in {j \in DOMAIN ot_marks : mark_id \in SeqToSet(ot_marks[j].v)}}

\* Step 2, lines 441-447: the class and every class holding one of its marks
related_classes(i) ==
    {ot_marks[i].k}
    \cup UNION {mark_identity_to_classes(mark_id) : mark_id \in SeqToSet(ot_marks[i].v)}

\* Step 2, the loop over self.ot_marks.keys() from position i on
RECURSIVE ClassGroupsFrom(_, _)
ClassGroupsFrom(i, processed_classes) ==
    IF i > Len(ot_marks) THEN <<>>
    ELSE IF ot_marks[i].k \in processed_classes
         THEN ClassGroupsFrom(i + 1, processed_classes)
         ELSE <<related_classes(i)>>
              \o ClassGroupsFrom(i + 1, processed_classes \cup related_classes(i))

ot_class_groups == ClassGroupsFrom(1, {})

\* for x in S, S a set of class names
IterClasses(S) == SelectSeq(hashOrder, LAMBDA c : c \in S)

RECURSIVE Repeat(_, _)
Repeat(seq, n) == IF n = 0 THEN <<>> ELSE seq \o Repeat(seq, n - 1)

\* lines 460-463: the y of every base attachment whose class is in the group
BaseAttachmentYs(class_group) ==
    Flatten([b \in DOMAIN base_attachments |->
        LET hits == SelectSeq(base_attachments[b].v,
                              LAMBDA att : att.ot_class \in class_group)
        IN  [n \in DOMAIN hits |-> hits[n].y]])

\* lines 466-470: the y of every ligature anchor of the classes of the group
LigatureAttachmentYs(class_group) ==
    Flatten([c \in DOMAIN IterClasses(class_group) |->
        Flatten([l \in DOMAIN ligature_attachments |->
            LET anchors == GetOr(ligature_attachments[l].v,
                                 IterClasses(class_group)[c], <<>>)
            IN  [n \in DOMAIN anchors |-> anchors[n].y]])])

\* attachment_ys, lines 456-470: the base loop runs once per class of the group
AttachmentYs(class_group) ==
    Repeat(BaseAttachmentYs(class_group), Cardinality(class_group))
    \o LigatureAttachmentYs(class_group)

\* sorted(S), S a set of integers
RECURSIVE SortedInts(_)
SortedInts(S) ==
    IF S = {} THEN <<>>
    ELSE LET m == CHOOSE x \in S : \A y \in S : x <= y
         IN  <<m>> \o SortedInts(S \ {m})

\* xs_sorted[len(xs_sorted) // 2]
MiddleOf(xs_sorted) == xs_sorted[(Len(xs_sorted) \div 2) + 1]

\* mark_ys, lines 478-480, as the set sorted(set(mark_ys)) reads
MarkYsOf(class_group) ==
    UNION {{ot_marks[i].v[m].y : m \in DOMAIN ot_marks[i].v} :
              i \in {j \in DOMAIN ot_marks : ot_marks[j].k \in class_group}}

\* the fallback key, lines 477-482
MarkMedianY(class_group) ==
    LET mark_ys_sorted == SortedInts(MarkYsOf(class_group))
    IN  IF mark_ys_sorted # <<>> THEN MiddleOf(mark_ys_sorted) ELSE 0

\* median_y, lines 472-482
MedianY(class_group) ==
    LET attachment_ys == AttachmentYs(class_group)
    IN  IF attachment_ys # <<>>
        THEN MiddleOf(SortSeq(attachment_ys, LAMBDA a, b : a < b))
        ELSE MarkMedianY(class_group)

\* Step 3: group_base_ys before it is sorted
GroupsWithMedians ==
    [i \in DOMAIN ot_class_groups |->
        [class_group |-> ot_class_groups[i], median_y |-> MedianY(ot_class_groups[i])]]

\* list.sort is stable: an entry goes behind the entries whose key is not larger
InsertByMedian(sorted, e) ==
    LET k == Cardinality({i \in DOMAIN sorted : sorted[i].median_y <= e.median_y})
    IN  SubSeq(sorted, 1, k) \o <<e>> \o SubSeq(sorted, k + 1, Len(sorted))

\* group_base_ys left in the order of Step 3
SortByMedianSkipped(gs) == gs

\* Step 4: group_base_ys.sort(key=lambda x: x[1])
RECURSIVE SortByMedian(_)
SortByMedian(gs) ==
    IF gs = <<>> THEN <<>>
    ELSE InsertByMedian(SortByMedian(SubSeq(gs, 1, Len(gs) - 1)), gs[Len(gs)])

\* f"ATTACHMENT_{idx}"
AttachmentName(idx) ==
    CASE idx = 0 -> "ATTACHMENT_0" [] idx = 1 -> "ATTACHMENT_1"
      [] idx = 2 -> "ATTACHMENT_2" [] idx = 3 -> "ATTACHMENT_3"
      [] idx = 4 -> "ATTACHMENT_4" [] idx = 5 -> "ATTACHMENT_5"

\* lines 493-506
SemanticName(idx, num_groups) ==
    IF num_groups = 1 THEN "ATTACHMENT_0"
    ELSE IF num_groups = 2 THEN (IF idx = 0 THEN "BOTTOM" ELSE "TOP")
    ELSE IF num_groups = 3
         THEN (IF idx = 0 THEN "BOTTOM" ELSE IF idx = 1 THEN "MIDDLE" ELSE "TOP")
    ELSE AttachmentName(idx)

\* lines 509-510 for one group
RECURSIVE MapClasses(_, _, _)
MapClasses(map, cs, semantic_name) ==
    IF cs = <<>> THEN map
    ELSE MapClasses(Put(map, Head(cs), semantic_name), Tail(cs), semantic_name)

\* unique_marks, lines 517-520
UniqueMarks(class_group) ==
    UNION {SeqToSet(ot_marks[i].v) :
              i \in {j \in DOMAIN ot_marks : ot_marks[j].k \in class_group}}

GlyphRank(g) == CHOOSE i \in DOMAIN MarkGlyphs : MarkGlyphs[i] = g

\* the order of (glyph, x, y) tuples
MarkLeq(a, b) ==
    \/ GlyphRank(a.glyph) < GlyphRank(b.glyph)
    \/ a.glyph = b.glyph /\ a.x < b.x
    \/ a.glyph = b.glyph /\ a.x = b.x /\ a.y <= b.y

\* sorted(unique_marks)
RECURSIVE SortedMarks(_)
SortedMarks(S) ==
    IF S = {} THEN <<>>
    ELSE LET m == CHOOSE a \in S : \A b \in S : MarkLeq(a, b)
         IN  <<m>> \o SortedMarks(S \ {m})

\* SemanticGroup.add_mark
AddMark(marks, mark) ==
    IF \E i \in DOMAIN marks : marks[i].glyph = mark.glyph THEN marks
    ELSE Append(marks, mark)

\* lines 524-526
RECURSIVE AddMarks(_, _, _)
AddMarks(marks, triples, representative_class) ==
    IF triples = <<>> THEN marks
    ELSE AddMarks(AddMark(marks, [glyph |-> Head(triples).glyph, x |-> Head(triples).x,
                                  y |-> Head(triples).y,
                                  ot_class |-> representative_class]),
                  Tail(triples), representative_class)

\* Step 5 from position idx on: the dict ot_class_to_semantic
RECURSIVE NameClasses(_, _, _)
NameClasses(map, gs, idx) ==
    IF idx > Len(gs) THEN map
    ELSE NameClasses(MapClasses(map, IterClasses(gs[idx].class_group),
                                SemanticName(idx - 1, Len(gs))),
                     gs, idx + 1)

\* Step 5 from position idx on: the dict semantic_groups
RECURSIVE BuildGroups(_, _, _)
BuildGroups(groups, gs, idx) ==
    IF idx > Len(gs) THEN groups
    ELSE LET semantic_name == SemanticName(idx - 1, Len(gs))
             marks == GetOr(groups, semantic_name, <<>>)
             representative_class == Head(IterClasses(gs[idx].class_group))
         IN  BuildGroups(Put(groups, semantic_name,
                             AddMarks(marks, SortedMarks(UniqueMarks(gs[idx].class_group)),
                                      representative_class)),
                         gs, idx + 1)

\* compute_semantic_groups, as parse_file runs it once the statements are read
ComputeSemanticGroups ==
    /\ prog = "sem" /\ ~pc.done
    /\ group_base_ys' = SortByMedian(GroupsWithMedians)
    /\ ot_class_to_semantic' = NameClasses(ot_class_to_semantic, group_base_ys', 1)
    /\ semantic_groups' = BuildGroups(semantic_groups, group_base_ys', 1)
    /\ pc' = [pc EXCEPT !.done = TRUE]
    /\ UNCHANGED <<prog, hashOrder, scan, varsAar, varsGsub, stderr,
                   varsMif, varsAtif, ot_marks, base_attachments,
                   ligature_attachments, returned>>

NextSem ==
    \/ ParseMarkClass
    \/ ParseBaseAttachments
    \/ ParseLigature
    \/ ComputeSemanticGroups

SpecSem == InitSem /\ [][NextSem]_vars

----------------------------------------------------------------------------
(* Reading the emitted ATIF text back *)

\* int(s) for the anchor indices the text can hold
NumOf(s) == CHOOSE n \in 0..16 : NumStr(n) = s

IsAnchorLine(line) == Len(line) = 5 /\ line[1] = "anchor"

\* the control-point subtable line i belongs to: 1 mark-to-base, 2 mark-to-mark
SubtableOf(text, i) == Cardinality({j \in 1..i : text[j] = SubtableOpen})

AnchorLinesOf(text) == {i \in DOMAIN text : IsAnchorLine(text[i])}

\* the anchor indices subtable t defines for the glyph
AnchorIndices(text, t, glyph) ==
    {NumOf(text[i][3]) : i \in {j \in AnchorLinesOf(text) :
                                   text[j][2] = glyph /\ SubtableOf(text, j) = t}}

\* the glyphs of the classes of subtable t whose name is one of names
ClassGlyphs(text, t, names) ==
    UNION {SeqToSet(Drop(text[i], 2)) :
              i \in {j \in DOMAIN text : /\ Len(text[j]) >= 2
                                         /\ text[j][1] = "class"
                                         /\ text[j][2] \in names
                                         /\ SubtableOf(text, j) = t}}

\* the point numbers of the lines "<label> N;" of subtable t
PointsOf(text, t, label) ==
    {text[i][2] : i \in {j \in DOMAIN text : /\ Len(text[j]) = 2
                                             /\ text[j][1] = label
                                             /\ SubtableOf(text, j) = t}}

BasesClassNames == {"bases"}

MarksClassNames == {"marks"} \cup {MarksClass(g) : g \in GroupNames}

\* the points the mark-to-mark action uses for the glyph: the marked glyph point
\* when it is in the class bases, the current glyph point when it is in a mark class
Table2PointsUsed(text, glyph) ==
    (IF glyph \in ClassGlyphs(text, 2, BasesClassNames)
     THEN PointsOf(text, 2, "marked glyph point:") ELSE {})
    \cup
    (IF glyph \in ClassGlyphs(text, 2, MarksClassNames)
     THEN PointsOf(text, 2, "current glyph point:") ELSE {})

\* a base mark that is also a mark of a group attaching to some base mark
IsDualRole(glyph) ==
    /\ glyph \in marks_serving_as_bases
    /\ \E g \in DOMAIN mark_groups :
          mark_groups[g].k \in attaching_groups /\ glyph \in GroupGlyphs(g)

----------------------------------------------------------------------------
(* C3: in every control-point subtable generate_atif emits, the anchor     *)
(* indices defined for a glyph that has an anchor there are exactly        *)
(* 0, 1, ..., k-1 for some k >= 1, with no gaps.                            *)
C3_IndicesContiguous ==
    \A r \in DOMAIN returned : \A t \in 1..2 : \A glyph \in AtifGlyphSet :
        LET S == AnchorIndices(returned[r], t, glyph)
        IN  IsAtif /\ S # {} => S = 0..(Cardinality(S) - 1)

(* C4: in the text generate_atif returns, no two anchor lines define the   *)
(* same index of the same glyph, across all tables.                        *)
C4_AnchorDefinedOnce ==
    \A r \in DOMAIN returned :
        IsAtif =>
            \A i, j \in AnchorLinesOf(returned[r]) :
                i < j => ~ (/\ returned[r][i][2] = returned[r][j][2]
                            /\ returned[r][i][3] = returned[r][j][3])

(* C5: in the mark-to-mark subtable, a glyph that is both a base mark and  *)
(* an attaching mark is addressed through one anchor index only: the point *)
(* the action uses for it as marked glyph and the point it uses for it as  *)
(* current glyph are the same.                                             *)
C5_DualRoleOneIndex ==
    \A r \in DOMAIN returned : \A glyph \in AtifGlyphSet :
        IsAtif /\ IsDualRole(glyph)
            => Cardinality(Table2PointsUsed(returned[r], glyph)) <= 1

(* C10: emission is idempotent; every call of generate() on one generator, *)
(* and every call of generate_atif() on one parsed converter, returns the  *)
(* same text.                                                              *)
C10_EmitIdempotent ==
    \A i, j \in DOMAIN returned :
        prog \in {"mif", "kerx", "atif"} => returned[i] = returned[j]

\* generate() was called twice on a generator holding a contextual lookup
C10_Witness ==
    /\ prog = "mif"
    /\ Len(returned) = 2
    /\ \E i \in DOMAIN lookups : lookups[i].lookup_type = "contextual" /\ lookups[i].rules # <<>>
    /\ Len(returned[2]) > Len(HeaderLines)

----------------------------------------------------------------------------
(* Reading the result of compute_semantic_groups *)

OTClassesSeen == SeqToSet(Keys(ot_marks))

\* the two classes hold an identical (glyph, x, y) triple
ShareTriple(c1, c2) ==
    SeqToSet(Get(ot_marks, c1)) \cap SeqToSet(Get(ot_marks, c2)) # {}

\* the classes linked to S by a chain of shared triples
RECURSIVE Reach(_)
Reach(S) ==
    LET n == S \cup {c \in OTClassesSeen : \E d \in S : ShareTriple(c, d)}
    IN  IF n = S THEN S ELSE Reach(n)

\* the positions of group_base_ys whose group holds the class
GroupsOf(c) == {i \in DOMAIN group_base_ys : c \in group_base_ys[i].class_group}

\* the median of the Y of the base and ligature attachment points recorded for
\* the classes of the group, each point counted once; the mark Y without any
TrueMedianY(class_group) ==
    LET ys == BaseAttachmentYs(class_group) \o LigatureAttachmentYs(class_group)
    IN  IF ys # <<>> THEN MiddleOf(SortSeq(ys, LAMBDA a, b : a < b))
        ELSE MarkMedianY(class_group)

\* the position in ot_marks of the class of the group that was seen first
FirstSeen(class_group) ==
    CHOOSE i \in DOMAIN ot_marks :
        /\ ot_marks[i].k \in class_group
        /\ \A j \in DOMAIN ot_marks : ot_marks[j].k \in class_group => i <= j

\* the names Step 5 is to give n groups, in ascending order of median Y
ExpectedNames(n) ==
    CASE n = 0 -> <<>>
      [] n = 1 -> <<"ATTACHMENT_0">>
      [] n = 2 -> <<"BOTTOM", "TOP">>
      [] n = 3 -> <<"BOTTOM", "MIDDLE", "TOP">>
      [] n = 4 -> <<"ATTACHMENT_0", "ATTACHMENT_1", "ATTACHMENT_2", "ATTACHMENT_3">>

(* C6: two OpenType mark classes holding an identical (glyph, x, y) triple *)
(* are mapped to the same SemanticGroup, and a SemanticGroup holds each    *)
(* glyph name at most once.                                                *)
C6_SharedTripleSameGroup ==
    prog = "sem" /\ pc.done =>
        /\ \A c1, c2 \in OTClassesSeen :
              ShareTriple(c1, c2)
                  => Get(ot_class_to_semantic, c1) = Get(ot_class_to_semantic, c2)
        /\ \A g \in DOMAIN semantic_groups :
              \A i, j \in DOMAIN semantic_groups[g].v :
                  i # j => semantic_groups[g].v[i].glyph # semantic_groups[g].v[j].glyph

(* C7: the merged class groups are a partition of the mark class names,    *)
(* and the group of a class is its closure under "share an identical       *)
(* triple": every class is in exactly one group, which holds exactly the   *)
(* classes a chain of shared triples links it to.                          *)
C7_GroupsAreClosure ==
    prog = "sem" /\ pc.done =>
        \A c \in OTClassesSeen :
            /\ Cardinality(GroupsOf(c)) = 1
            /\ \A i \in GroupsOf(c) : group_base_ys[i].class_group = Reach({c})

(* C8: the merged groups are named by their count N and their position in  *)
(* ascending order of median Y: ATTACHMENT_0 for N = 1; BOTTOM, TOP for    *)
(* N = 2; BOTTOM, MIDDLE, TOP for N = 3; ATTACHMENT_0..ATTACHMENT_{N-1}    *)
(* for N >= 4; there are N SemanticGroups and their names are distinct.    *)
C8_NamesByCountAndY ==
    prog = "sem" /\ pc.done =>
        LET N == Len(group_base_ys)
        IN  /\ \A i, j \in 1..N :
                  i < j => group_base_ys[i].median_y <= group_base_ys[j].median_y
            /\ Keys(semantic_groups) = ExpectedNames(N)
            /\ Len(semantic_groups) = N
            /\ \A i, j \in DOMAIN semantic_groups :
                  i # j => semantic_groups[i].k # semantic_groups[j].k
            /\ \A i \in 1..N :
                  /\ {semantic_groups[i].v[m].glyph : m \in DOMAIN semantic_groups[i].v}
                        = {t.glyph : t \in UniqueMarks(group_base_ys[i].class_group)}
                  /\ \A c \in group_base_ys[i].class_group :
                        GroupsOf(c) = {i}
                            => Get(ot_class_to_semantic, c) = ExpectedNames(N)[i]

\* four groups were computed, and sorting them by median Y changed their order
C8_Witness ==
    /\ prog = "sem" /\ pc.done
    /\ Len(group_base_ys) = 4
    /\ group_base_ys # GroupsWithMedians
    /\ Keys(semantic_groups) = <<"ATTACHMENT_0", "ATTACHMENT_1", "ATTACHMENT_2",
                                 "ATTACHMENT_3">>

(* C9: the merged groups are ordered by the median of the Y of the base    *)
(* and ligature attachment points recorded for their classes (the median   *)
(* of their mark Y when they have none), and groups of equal key keep the  *)
(* order in which their first class was first seen.                        *)
C9_OrderedByTrueMedian ==
    prog = "sem" /\ pc.done =>
        \A i, j \in DOMAIN group_base_ys :
            i < j =>
                LET ki == TrueMedianY(group_base_ys[i].class_group)
                    kj == TrueMedianY(group_base_ys[j].class_group)
                IN  /\ ki <= kj
                    /\ ki = kj => FirstSeen(group_base_ys[i].class_group)
                                    <= FirstSeen(group_base_ys[j].class_group)

----------------------------------------------------------------------------
(* MIFGenerator over lookups of several rules: the rule loops of           *)
(* _generate_state_machine, _generate_insertion, _generate_rearrangement.  *)

MaxSiblings == 2        \* rules in one lookup of the rule-loop inputs
LongPatternLen == 11    \* context elements of the long contextual rule

\* A contextual rule whose context names LongPatternLen classes, and a short
\* rule of the same lookup; the two differ in source and target.
LongContext == [i \in 1..LongPatternLen |-> <<"@", "A">>]

SiblingContextualRules ==
    {[type |-> "contextual", context_type |-> t, context_classes |-> LongContext,
      source |-> "y", target |-> "y.alt"] : t \in {"before", "after"}}
    \cup {[type |-> "contextual", context_type |-> t,
           context_classes |-> << <<"@", "A">> >>,
           source |-> "x", target |-> "x.alt"] : t \in {"before", "after"}}

SiblingLookupsOf(kind, rules) ==
    {[name |-> "L", lookup_type |-> kind, feature |-> "f", rules |-> r] :
        r \in SeqsUpTo(rules, MaxSiblings)}

SiblingLookupLists ==
    {<<l>> : l \in SiblingLookupsOf("contextual", SiblingContextualRules)
                   \cup SiblingLookupsOf("one2many", One2ManyRules)
                   \cup SiblingLookupsOf("reorder", ReorderRules)}

\* MIFGenerator(classes, lookups) with one lookup of up to MaxSiblings rules
InitMifRules ==
    /\ prog = "mif"
    /\ classes \in Dicts(ClassNameSet, SeqsUpTo(GenGlyphs, MaxClassLen))
    /\ lookups \in SiblingLookupLists
    /\ hashOrder \in Perms(ClassNameSet)
    /\ glyph_memberships = <<>>
    /\ partitions = <<>>
    /\ output = <<>>
    /\ NoAtif
    /\ NoAar
    /\ NoGsub
    /\ NoScan
    /\ stderr = <<>>
    /\ NoSem
    /\ returned = <<>>

SpecMifRules == InitMifRules /\ [][NextMif]_vars

\* The lines of text after its last line `marker` (the body of doSubst).
LinesAfter(text, marker) ==
    LET at == {i \in DOMAIN text : text[i] = marker}
    IN  IF at = {} THEN <<>>
        ELSE SubSeq(text, (CHOOSE i \in at : \A j \in at : j <= i) + 1, Len(text))

\* The contextual rules of the lookups a generator holds.
ContextualRulesHeld ==
    UNION {SeqToSet(RulesOfType(lookups[i].rules, "contextual")) : i \in DOMAIN lookups}

(* C11: a contextual rule whose pattern has more than 10 elements is left  *)
(* out of the text generate() returns (no substitution line of doSubst is  *)
(* its own), while every rule of the same lookup with a pattern of at most *)
(* 10 elements has its substitution line.                                  *)
C11_LongPatternExcluded ==
    (prog = "mif" /\ returned # <<>>) =>
        LET subst == SeqToSet(LinesAfter(returned[Len(returned)], <<"doSubst">>))
            short == {r \in ContextualRulesHeld : Len(r.context_classes) <= 10}
            long  == {r \in ContextualRulesHeld : Len(r.context_classes) > 10}
        IN  /\ \A r \in short : <<r.source, r.target>> \in subst
            /\ \A r \in long :
                  (\A q \in short : <<q.source, q.target>> # <<r.source, r.target>>)
                      => <<r.source, r.target>> \notin subst

\* The number of times g occurs in the list s.
Count(s, g) == Cardinality({i \in DOMAIN s : s[i] = g})

\* after is a reordering of before: the same length and the same multiset.
IsPermutation(before, after) ==
    /\ Len(before) = Len(after)
    /\ \A g \in SeqToSet(before) \cup SeqToSet(after) : Count(before, g) = Count(after, g)

\* The rows of the action table of a Rearrangement subtable that name a verb:
\* the DoThis column holds something other than "none".
IsVerbLine(line) ==
    /\ Len(line) = 6
    /\ line[2] \in {"StartText", "SawMatch1"}
    /\ line[6] # "none"

(* C12: a Rearrangement subtable has a verb in its action table only when  *)
(* every reorder rule of its lookup has an `after` that is a permutation   *)
(* of its `before` (same length, same multiset); a lookup with a rule that *)
(* is not a permutation gets no verb.                                      *)
C12_VerbOnlyForPermutation ==
    (prog = "mif" /\ returned # <<>>) =>
        LET text == returned[Len(returned)]
        IN  \A i \in DOMAIN lookups :
              (/\ lookups[i].lookup_type = "reorder"
               /\ \E k \in DOMAIN lookups[i].rules :
                     ~IsPermutation(lookups[i].rules[k].before, lookups[i].rules[k].after))
              => \A j \in DOMAIN text :
                    SectionOf(text, j) = i => ~IsVerbLine(text[j])

\* The Glyphs lines of the doInsert action of section i.
GlyphsLinesOf(text, i) ==
    {text[j] : j \in {n \in DOMAIN text :
                        /\ SectionOf(text, n) = i
                        /\ text[n] # <<>> /\ Head(text[n]) = "Glyphs"}}

(* C18: in the Insertion subtable of a one2many lookup, the sequence that  *)
(* is inserted for a rule is that rule's own targets: every Glyphs line of *)
(* the subtable's insert action lists the targets of every rule that the   *)
(* subtable matches (the rules of the lookup have distinct sources).       *)
C18_InsertsOwnTargets ==
    (prog = "mif" /\ returned # <<>>) =>
        LET text == returned[Len(returned)]
        IN  \A i \in DOMAIN lookups :
              (/\ lookups[i].lookup_type = "one2many"
               /\ \A k, n \in DOMAIN lookups[i].rules :
                     k # n => lookups[i].rules[k].source # lookups[i].rules[n].source)
              => \A k \in DOMAIN lookups[i].rules :
                    /\ GlyphsLinesOf(text, i) # {}
                    /\ \A g \in GlyphsLinesOf(text, i) :
                          g = <<"Glyphs">> \o lookups[i].rules[k].targets

----------------------------------------------------------------------------
(* Anchor definitions of one control-point subtable.                       *)

\* The glyph is a mark of some mark group.
IsMarkGlyph(glyph) ==
    \E i \in DOMAIN mark_groups :
        \E m \in DOMAIN mark_groups[i].v : mark_groups[i].v[m].glyph = glyph

\* The anchor lines of the glyph in subtable t are written by one loop only:
\* in the mark-to-base subtable the glyph is not both a mark (223-226) and a
\* base (232-236); in the mark-to-mark subtable the attaching loop (321-327)
\* skips the glyphs of the base-mark loop (332-335).
OneRole(t, glyph) == t = 2 \/ ~(IsMarkGlyph(glyph) /\ Has(bases, glyph))

(* C16: a control-point subtable in which a glyph would need two different *)
(* definitions of one anchor index for the same role is not emitted: in    *)
(* the text generate_atif returns, no subtable holds two anchor lines of   *)
(* the same glyph, written for the same role, with the same index and      *)
(* different coordinates.                                                  *)
C16_NoConflictingAnchors ==
    \A r \in DOMAIN returned : \A t \in 1..2 : \A glyph \in AtifGlyphSet :
        (IsAtif /\ OneRole(t, glyph)) =>
            \A i, j \in AnchorLinesOf(returned[r]) :
                (/\ SubtableOf(returned[r], i) = t /\ SubtableOf(returned[r], j) = t
                 /\ returned[r][i][2] = glyph /\ returned[r][j][2] = glyph
                 /\ returned[r][i][3] = returned[r][j][3])
                => (/\ returned[r][i][4] = returned[r][j][4]
                    /\ returned[r][i][5] = returned[r][j][5])

----------------------------------------------------------------------------
(* References to classes that no @class line defines.                      *)

\* The class names the contextual rules of the lookups refer to as @NAME
\* that are not keys of self.classes.
UndefinedReferences ==
    {c[2] : c \in {p \in Predecessors(Flatten([i \in DOMAIN lookups |-> lookups[i].rules])) :
                      Len(p) = 2 /\ ~Has(classes, p[2])}}

\* The names of the partitions the Match lines of the text are written for.
MatchComments(text) ==
    {Drop(text[i], Len(UpToComment(text[i])) + 1) :
        i \in {j \in DOMAIN text : IsMatchLine(text[j]) /\ "//" \in SeqToSet(text[j])}}

(* C15: a contextual rule that refers to a class @NAME that is not defined *)
(* is recovered where it is referenced: the class counts as empty (no      *)
(* Match class lists glyphs for it), a diagnostic naming it is recorded,   *)
(* and the lookup's substitutions are still emitted.                       *)
C15_UndefinedClassReported ==
    (prog = "mif" /\ returned # <<>>) =>
        LET text == returned[Len(returned)]
        IN  \A n \in UndefinedReferences :
              /\ <<"PRED_", n>> \notin MatchComments(text)
              /\ \A r \in ContextualRulesHeld :
                    <<r.source, r.target>> \in SeqToSet(LinesAfter(text, <<"doSubst">>))
              /\ \E d \in DOMAIN stderr : n \in SeqToSet(stderr[d])

----------------------------------------------------------------------------
(* aar_to_mif_converter.py: AARParser (prog = "aar").  The content is the  *)
(* sequence of its lines, a line the sequence of its tokens; a reference   *)
(* "@A" is one token of a line.                                            *)

MaxLookupBlocks == 2    \* lookup blocks of one content
MaxBlockLines   == 2    \* rule lines of one block

\* "# " + "-" * 76, which the pattern "# -{10,}" matches
AarRule == <<"# ----------------------------------------------------------------------------">>

\* sep in tok, for the operators of the rule lines
Contains(tok, sep) ==
    \/ tok = sep
    \/ sep = ">" /\ tok \in {"=>", "->"}
    \/ sep = ":" /\ tok = ":="

\* sep in line
HasSub(line, sep) == \E i \in DOMAIN line : Contains(line[i], sep)

\* tok.split(sep): the words on the two sides of sep inside the token
Pieces(tok, sep) ==
    IF tok = sep THEN << <<>>, <<>> >>
    ELSE IF sep = ">" /\ tok = "=>" THEN << <<"=">>, <<>> >>
    ELSE IF sep = ">" /\ tok = "->" THEN << <<"-">>, <<>> >>
    ELSE IF sep = ":" /\ tok = ":=" THEN << <<>>, <<"=">> >>
    ELSE << <<tok>> >>

\* line.split(sep): the list of the parts, each part the words it holds
RECURSIVE SplitOn(_, _, _)
SplitOn(parts, line, sep) ==
    IF line = <<>> THEN parts
    ELSE LET p    == Pieces(Head(line), sep)
             same == [parts EXCEPT ![Len(parts)] = @ \o p[1]]
         IN  SplitOn(IF Len(p) = 1 THEN same ELSE Append(same, p[2]), Tail(line), sep)

Split(line, sep) == SplitOn(<< <<>> >>, line, sep)

\* part.strip() kept as one string: the word itself when there is one word
Str(words) == IF Len(words) = 1 THEN words[1] ELSE words

\* The characters of a word of a context, up to the name: "@A" is <<"@", "A">>.
ClassRef(word) ==
    CASE word = "@A" -> <<"@", "A">>
      [] word = "@B" -> <<"@", "B">>
      [] OTHER       -> <<word>>

\* rule_type = match.group(4).strip('@')
RuleTypeOf(tok) ==
    CASE tok = "@simple"     -> "simple"
      [] tok = "@contextual" -> "contextual"
      [] tok = "@ligature"   -> "ligature"
      [] tok = "@one2many"   -> "one2many"
      [] tok = "@reorder"    -> "reorder"
      [] OTHER               -> tok

\* _parse_simple_rules
RECURSIVE ParseSimpleRules(_)
ParseSimpleRules(lines) ==
    IF lines = <<>> THEN <<>>
    ELSE (IF HasSub(Head(lines), "->")
          THEN LET parts == Split(Head(lines), "->")
               IN  << [type |-> "simple", source |-> Str(parts[1]),
                       target |-> Str(parts[2])] >>
          ELSE <<>>) \o ParseSimpleRules(Tail(lines))

\* One line of the loop of _parse_contextual_rules: the rules it appends, or
\* the exception of the unpacking `left, right = line.split('=>')`.
ParseContextualLine(line) ==
    IF ~HasSub(line, "=>") THEN [rules |-> <<>>, raised |-> ""]
    ELSE LET halves == Split(line, "=>")
         IN  IF Len(halves) # 2 THEN [rules |-> <<>>, raised |-> "ValueError"]
             ELSE LET left  == halves[1]
                      right == halves[2]
                      kind  == IF left # <<>> /\ Head(left) = "before" THEN "before"
                               ELSE IF left # <<>> /\ Head(left) = "after" THEN "after"
                               ELSE ""
                      parts == Split(Tail(left), ":")
                  IN  IF kind = "" THEN [rules |-> <<>>, raised |-> ""]
                      ELSE IF Len(parts) # 2 THEN [rules |-> <<>>, raised |-> ""]
                      ELSE [rules |-> << [type |-> "contextual", context_type |-> kind,
                                          context_classes |->
                                              [i \in DOMAIN parts[1] |-> ClassRef(parts[1][i])],
                                          source |-> Str(parts[2]),
                                          target |-> Str(right)] >>,
                            raised |-> ""]

\* _parse_contextual_rules
RECURSIVE ParseContextualRules(_, _)
ParseContextualRules(rules, lines) ==
    IF lines = <<>> THEN [rules |-> rules, raised |-> ""]
    ELSE LET one == ParseContextualLine(Head(lines))
         IN  IF one.raised # "" THEN [rules |-> rules, raised |-> one.raised]
             ELSE ParseContextualRules(rules \o one.rules, Tail(lines))

\* _parse_ligature_rules
RECURSIVE ParseLigatureRules(_)
ParseLigatureRules(lines) ==
    IF lines = <<>> THEN <<>>
    ELSE (IF HasSub(Head(lines), ":=")
          THEN LET parts == Split(Head(lines), ":=")
                   comps == Split(parts[2], "+")
               IN  << [type |-> "ligature", result |-> Str(parts[1]),
                       components |-> [i \in DOMAIN comps |-> Str(comps[i])]] >>
          ELSE <<>>) \o ParseLigatureRules(Tail(lines))

\* _parse_one2many_rules
RECURSIVE ParseOne2ManyRules(_)
ParseOne2ManyRules(lines) ==
    IF lines = <<>> THEN <<>>
    ELSE (IF HasSub(Head(lines), ">") /\ ~HasSub(Head(lines), "=>")
          THEN LET parts == Split(Head(lines), ">")
               IN  << [type |-> "one2many", source |-> Str(parts[1]),
                       targets |-> parts[2]] >>
          ELSE <<>>) \o ParseOne2ManyRules(Tail(lines))

\* _parse_reorder_rules
RECURSIVE ParseReorderRules(_)
ParseReorderRules(lines) ==
    IF lines = <<>> THEN <<>>
    ELSE (IF HasSub(Head(lines), "=>")
          THEN LET parts == Split(Head(lines), "=>")
               IN  << [type |-> "reorder", before |-> parts[1], after |-> parts[2]] >>
          ELSE <<>>) \o ParseReorderRules(Tail(lines))

\* The dispatch of _parse_lookups on rule_type
ParseRules(rule_type, lines) ==
    CASE rule_type = "simple"     -> [rules |-> ParseSimpleRules(lines), raised |-> ""]
      [] rule_type = "contextual" -> ParseContextualRules(<<>>, lines)
      [] rule_type = "ligature"   -> [rules |-> ParseLigatureRules(lines), raised |-> ""]
      [] rule_type = "one2many"   -> [rules |-> ParseOne2ManyRules(lines), raised |-> ""]
      [] rule_type = "reorder"    -> [rules |-> ParseReorderRules(lines), raised |-> ""]
      [] OTHER                    -> [rules |-> <<>>, raised |-> ""]

\* lookup_pattern matches at line i of text: the five header lines, the line
\* "@type {", and a line "}" after it.
LookupMatchesAt(text, i) ==
    /\ i + 6 <= Len(text)
    /\ text[i] = AarRule
    /\ Len(text[i + 1]) = 2 /\ text[i + 1][1] = "# Lookup:"
    /\ Len(text[i + 2]) >= 2 /\ text[i + 2][1] \in {"# Features:", "# Feature:"}
    /\ Len(text[i + 3]) >= 2 /\ text[i + 3][1] \in {"# Scripts:", "# Script:"}
    /\ text[i + 4] = AarRule
    /\ Len(text[i + 5]) = 2 /\ text[i + 5][2] = "{"
    /\ \E j \in (i + 6)..Len(text) : text[j] = <<"}">>

\* the line of the first "}" after "@type {"
BlockEnd(text, i) ==
    CHOOSE j \in (i + 6)..Len(text) :
        text[j] = <<"}">> /\ \A k \in (i + 6)..(j - 1) : text[k] # <<"}">>

\* features.split()[0]: the first word, with the comma ', '.join put after it
FirstFeature(line) ==
    IF Len(line) > 2 /\ line[3] = "," THEN <<line[2], ",">> ELSE line[2]

\* The loop of _parse_lookups over the matches found from line i on.
RECURSIVE ParseLookupsFrom(_, _, _)
ParseLookupsFrom(found, text, i) ==
    IF i > Len(text) THEN [lookups |-> found, raised |-> ""]
    ELSE IF ~LookupMatchesAt(text, i) THEN ParseLookupsFrom(found, text, i + 1)
    ELSE LET rule_type == RuleTypeOf(text[i + 5][1])
             parsed    == ParseRules(rule_type,
                                     SubSeq(text, i + 6, BlockEnd(text, i) - 1))
             lookup    == [name |-> text[i + 1][2], lookup_type |-> rule_type,
                           feature |-> FirstFeature(text[i + 2]),
                           rules |-> parsed.rules]
         IN  IF parsed.raised # "" THEN [lookups |-> found, raised |-> parsed.raised]
             ELSE ParseLookupsFrom(Append(found, lookup), text, BlockEnd(text, i) + 1)

\* _parse_classes: every "@class NAME = glyphs" line sets classes[NAME]
RECURSIVE ParseClasses(_, _)
ParseClasses(found, text) ==
    IF text = <<>> THEN found
    ELSE LET line == Head(text)
         IN  ParseClasses(IF Len(line) >= 4 /\ line[1] = "@class" /\ line[3] = "="
                          THEN Put(found, line[2], Drop(line, 3))
                          ELSE found,
                          Tail(text))

\* The rule lines a block of each type may hold: the forms the docstrings
\* give, the forms GSUBToAAR writes, and lines that are not well formed.
BlockLines(t) ==
    CASE t = "@simple"     -> {<<"x", "->", "x.alt">>}
      [] t = "@ligature"   -> {<<"f_i", ":=", "f", "+", "i">>}
      [] t = "@one2many"   -> {<<"x", ">", "a", "b">>}
      [] t = "@reorder"    -> {<<"x", "y", "=>", "y", "x">>, <<"x", "y", ">", "y", "x">>}
      [] t = "@contextual" ->
            {<<"before", "@A", ":", "x", "=>", "x.alt">>,
             <<"after", "@A", "@B", ":", "y", "=>", "y.alt">>,
             <<"between", "@A", "and", "@B", ":", "x", "=>", "x.mid">>,
             <<"after", "@A", ":", "x", "=>", "x.alt", "=>", "x.end">>,
             <<"@A", ":", "x", "=>", "x.alt">>,
             <<"after", "@A", "x", "=>", "x.alt">>}

BlockTypes == {"@simple", "@ligature", "@one2many", "@reorder", "@contextual"}

\* One lookup block as GSUBToAAR.generate_lookup_output lays it out.
LookupBlock(name, t, lines) ==
    << AarRule, <<"# Lookup:", name>>, <<"# Features:", "f">>, <<"# Scripts:", "DFLT">>,
       AarRule, <<t, "{">> >> \o lines \o << <<"}">>, <<>> >>

BlocksOfType(name) ==
    UNION {{LookupBlock(name, t, lines) : lines \in SeqsUpTo(BlockLines(t), MaxBlockLines)} :
              t \in BlockTypes}

AarContents ==
    {c \o b1 : c \in {<<>>, << <<"@class", "A", "=", "x">> >>},
               b1 \in BlocksOfType("L1")}
    \cup {c \o b1 \o b2 : c \in {<<>>, << <<"@class", "A", "=", "x">> >>},
                          b1 \in BlocksOfType("L1"), b2 \in BlocksOfType("L2")}

\* AARParser(aar_content)
InitAar ==
    /\ prog = "aar"
    /\ aar_content \in AarContents
    /\ raised = ""
    /\ hashOrder = ClassNames
    /\ NoMif
    /\ NoAtif
    /\ NoSem
    /\ NoGsub
    /\ NoScan
    /\ stderr = <<>>
    /\ returned = <<>>

\* AARParser.parse()
Parse ==
    /\ prog = "aar"
    /\ raised = ""
    /\ Len(returned) < MaxCalls
    /\ LET parsed == ParseLookupsFrom(<<>>, aar_content, 1)
       IN  /\ classes' = ParseClasses(classes, aar_content)
           /\ lookups' = lookups \o parsed.lookups
           /\ raised' = parsed.raised
           /\ returned' = IF parsed.raised = ""
                          THEN Append(returned, [classes |-> classes', lookups |-> lookups'])
                          ELSE returned
    /\ UNCHANGED <<prog, hashOrder, scan, glyph_memberships, partitions, output, varsAtif,
                   varsSem, aar_content, varsGsub, stderr>>

NextAar == Parse

SpecAar == InitAar /\ [][NextAar]_vars

\* The lines of aar_content where a lookup block starts.
BlockStarts == {i \in DOMAIN aar_content : LookupMatchesAt(aar_content, i)}

\* The rule lines of the block that starts at line i.
BlockBody(i) == SubSeq(aar_content, i + 6, BlockEnd(aar_content, i) - 1)

\* The rules parse() returned for the lookup called name.
RulesReturnedFor(name) ==
    UNION {SeqToSet(lookups[k].rules) : k \in {n \in DOMAIN lookups : lookups[n].name = name}}

(* C13: parse() isolates errors per rule line: whatever lines a block      *)
(* holds, parse() does not raise, and once it has returned every lookup    *)
(* block of the content is among the lookups it returned.                  *)
C13_ParseIsolatesErrors ==
    prog = "aar" =>
        /\ raised = ""
        /\ returned # <<>> =>
              \A i \in BlockStarts : \E k \in DOMAIN lookups :
                  lookups[k].name = aar_content[i + 1][2]

\* A contextual line "<kind> <context> : <source> => <target>" with one "=>",
\* one ":" before it, and one word on each side of "=>".
IsContextualLine(line, kind) ==
    /\ line # <<>> /\ Head(line) = kind
    /\ Len(Split(line, "=>")) = 2
    /\ Len(Split(Split(line, "=>")[1], ":")) = 2
    /\ Len(Split(Split(line, "=>")[1], ":")[2]) = 1
    /\ Len(Split(line, "=>")[2]) = 1

(* C14: parse() returns, for every contextual line of the form             *)
(* "<kind> <context>: <source> => <target>" with kind one of before,       *)
(* after, between, a contextual rule with that context_type, source and    *)
(* target; a "between X and Y: src => tgt" line is not dropped.            *)
C14_BetweenIsParsed ==
    (prog = "aar" /\ returned # <<>>) =>
        \A i \in BlockStarts :
            aar_content[i + 5][1] = "@contextual" =>
                \A n \in DOMAIN BlockBody(i) : \A kind \in {"before", "after", "between"} :
                    IsContextualLine(BlockBody(i)[n], kind) =>
                        \E r \in RulesReturnedFor(aar_content[i + 1][2]) :
                            /\ r.type = "contextual"
                            /\ r.context_type = kind
                            /\ r.source = Split(Split(BlockBody(i)[n], "=>")[1], ":")[2][1]
                            /\ r.target = Split(BlockBody(i)[n], "=>")[2][1]

----------------------------------------------------------------------------
(* gsubfea2morxaar.py: GSUBToAAR (prog = "gsub").  A pattern element is    *)
(* the sequence of its parts: <<"x">> a glyph, <<"@", "A">> a class        *)
(* reference, <<"[", "a", "b", "]">> an inline class.                      *)

MaxFeatureRefs == 2     \* lookup statements in the feature blocks of a file

\* LookupInfo(name)
LookupInfo(name) == [name |-> name, scripts |-> <<>>, features |-> <<>>, is_prefix |-> FALSE]

\* The lists of ParsedLookup(info), all empty
EmptyBody ==
    [single_subs |-> <<>>, ligatures |-> <<>>, multiple_subs |-> <<>>,
     contextual_subs |-> <<>>, rearrangement_rules |-> <<>>,
     rearrangement_patterns |-> <<>>, local_classes |-> <<>>, raw_lines |-> <<>>]

\* ParsedLookup(info) with the lists parse_lookup_body filled
ParsedLookup(name, b) ==
    [info |-> LookupInfo(name), single_subs |-> b.single_subs, ligatures |-> b.ligatures,
     multiple_subs |-> b.multiple_subs, contextual_subs |-> b.contextual_subs,
     rearrangement_rules |-> b.rearrangement_rules,
     rearrangement_patterns |-> b.rearrangement_patterns,
     local_classes |-> b.local_classes, raw_lines |-> b.raw_lines]

\* ParsedLookup.is_empty
IsEmpty(lookup) ==
    /\ lookup.single_subs = <<>> /\ lookup.ligatures = <<>>
    /\ lookup.multiple_subs = <<>> /\ lookup.contextual_subs = <<>>
    /\ lookup.rearrangement_rules = <<>> /\ lookup.rearrangement_patterns = <<>>

\* "sub <source> by <target>;" read by parse_single_substitution
SingleBody(source, target) ==
    [EmptyBody EXCEPT !.single_subs = << [source |-> source, target |-> target] >>,
                      !.raw_lines = << <<"sub", source, "by", target, ";">> >>]

\* "sub f i by f_i;" read by parse_ligature
LigatureBody ==
    [EmptyBody EXCEPT !.ligatures = << [target |-> "f_i", components |-> <<"f", "i">>] >>,
                      !.raw_lines = << <<"sub", "f", "i", "by", "f_i", ";">> >>]

\* "sub x by a b;" read by parse_multiple_substitution
MultipleBody ==
    [EmptyBody EXCEPT !.multiple_subs = << [source |-> "x", targets |-> <<"a", "b">>] >>,
                      !.raw_lines = << <<"sub", "x", "by", "a", "b", ";">> >>]

\* "lookupflag IgnoreMarks;" and "sub x by y;"
FlaggedBody ==
    [EmptyBody EXCEPT !.single_subs = << [source |-> "x", target |-> "y"] >>,
                      !.raw_lines = << <<"lookupflag", "IgnoreMarks", ";">>,
                                       <<"sub", "x", "by", "y", ";">> >>]

\* "sub x' lookup_1 y' lookup_2;" read by parse_inline_lookup_contextual
ReorderBody ==
    [EmptyBody EXCEPT
        !.rearrangement_patterns =
            << [glyphs |-> <<"x", "y">>, lookup_refs |-> <<"lookup_1", "lookup_2">>] >>,
        !.raw_lines = << <<"sub", "x'", "lookup_1", "y'", "lookup_2", ";">> >>]

\* ContextualSubstitution(elements, marked_indices, {}, lookup_refs) as
\* parse_contextual_substitution builds it from "sub <pattern> by <ref>;"
ContextualSubstitution(context, marked, ref) ==
    [context |-> context, marked_indices |-> <<marked>>, substitutions |-> <<>>,
     lookup_refs |-> << [k |-> marked, v |-> ref] >>]

\* The patterns of the contextual statements, the marked glyph first, last,
\* in the middle, and a marked class.
ContextualPatterns(ref) ==
    {ContextualSubstitution(<< <<"x">>, <<"@", "A">> >>, 0, ref),
     ContextualSubstitution(<< <<"@", "A">>, <<"x">> >>, 1, ref),
     ContextualSubstitution(<< <<"@", "A">>, <<"x">>, <<"[", "a", "b", "]">> >>, 1, ref),
     ContextualSubstitution(<< <<"y">>, <<"@", "A">> >>, 1, ref)}

ContextualBodies ==
    {[EmptyBody EXCEPT !.contextual_subs = <<c>>] :
        c \in ContextualPatterns("lookup_1") \cup ContextualPatterns("lookup_2")}
    \cup {[EmptyBody EXCEPT !.contextual_subs = <<c1, c2>>] :
            c1 \in {c \in ContextualPatterns("lookup_1") : Len(c.context) = 2 /\ c.context[2] # <<"@", "A">>},
            c2 \in {c \in ContextualPatterns("lookup_2") : c.marked_indices = <<1>> /\ c.context[2] = <<"x">>}}

\* What the file defines each lookup as (<<>>: the file does not define it).
Bodies1 == {<<>>, <<SingleBody("x", "y")>>}

Bodies2 == {<<>>, <<MultipleBody>>, <<SingleBody("y", "x")>>}

Bodies3 ==
    {<<>>, <<EmptyBody>>, <<FlaggedBody>>, <<LigatureBody>>, <<ReorderBody>>}
    \cup {<<b>> : b \in ContextualBodies}

\* Script tags, whose order in set(lookup.info.scripts) the hash seed gives
ScriptTags == {"DFLT", "tml2"}

\* The (feature, script, lookup) entries parse_feature_block appends.
FeatureRefs ==
    {<<"liga", "DFLT", "lookup_3">>, <<"liga", "tml2", "lookup_3">>,
     <<"rlig", "DFLT", "lookup_3">>, <<"rlig", "tml2", "lookup_2">>,
     <<"rlig", "DFLT", "lookup_4">>}

\* Feature blocks that name lookup_3, then lookup_2, then lookup_3 again
RepeatedOrders ==
    {<<a, b, c>> : a \in {f \in FeatureRefs : f[3] = "lookup_3"},
                   b \in {f \in FeatureRefs : f[3] = "lookup_2"},
                   c \in {f \in FeatureRefs : f[3] = "lookup_3"}}

FeatureOrders == SeqsUpTo(FeatureRefs, MaxFeatureRefs) \cup RepeatedOrders

\* --script: none, or a list of script tags
ScriptFilters == {<<>>, <<"tml2">>}

\* The global @A = [...] line of the file, if any
GlobalClassDicts == {<<>>, << [k |-> "A", v |-> <<"x">>] >>}

\* The lookups the file defines, in the order of their definitions.
Definitions(b1, b2, b3) ==
    (IF b1 = <<>> THEN <<>> ELSE << [k |-> "lookup_1", v |-> ParsedLookup("lookup_1", b1[1])] >>)
    \o (IF b2 = <<>> THEN <<>> ELSE << [k |-> "lookup_2", v |-> ParsedLookup("lookup_2", b2[1])] >>)
    \o (IF b3 = <<>> THEN <<>> ELSE << [k |-> "lookup_3", v |-> ParsedLookup("lookup_3", b3[1])] >>)

\* The line parse_file prints for each lookup it parsed (400)
ParsedLookupLines(defs) ==
    [i \in DOMAIN defs |->
        <<"Parsed lookup", defs[i].k,
          "single=", NumStr(Len(defs[i].v.single_subs)),
          "lig=", NumStr(Len(defs[i].v.ligatures)),
          "mult=", NumStr(Len(defs[i].v.multiple_subs)),
          "ctx=", NumStr(Len(defs[i].v.contextual_subs)),
          "reorder_pat=", NumStr(Len(defs[i].v.rearrangement_patterns))>>]

\* list.append(x) unless x is in the list
AppendNew(list, x) == IF x \in SeqToSet(list) THEN list ELSE Append(list, x)

\* The loop of parse_file over feature_order (417-427): the lookups with
\* their features and scripts assigned, and the lines printed.
RECURSIVE AssignFeatures(_, _, _)
AssignFeatures(lks, printed, order) ==
    IF order = <<>> THEN [lookups |-> lks, printed |-> printed]
    ELSE LET feature_name == Head(order)[1]
             script       == Head(order)[2]
             lookup_name  == Head(order)[3]
         IN  IF Has(lks, lookup_name)
             THEN LET lookup == Get(lks, lookup_name)
                      info   == [lookup.info EXCEPT
                                    !.features = AppendNew(@, feature_name),
                                    !.scripts  = AppendNew(@, script)]
                  IN  AssignFeatures(Put(lks, lookup_name, [lookup EXCEPT !.info = info]),
                                     Append(printed, <<"Assigned", feature_name, script,
                                                       lookup_name>>),
                                     Tail(order))
             ELSE AssignFeatures(lks,
                                 Append(printed, <<"WARNING: referenced in features but not found!",
                                                   lookup_name>>),
                                 Tail(order))

\* The loop of parse_file that marks the lookups no feature refers to (429-431)
MarkPrefix(lks, order) ==
    [i \in DOMAIN lks |->
        IF lks[i].k \in {order[n][3] : n \in DOMAIN order}
        THEN lks[i]
        ELSE [k |-> lks[i].k, v |-> [lks[i].v EXCEPT !.info.is_prefix = TRUE]]]

\* sum(1 for l in all_lookups.values() if l.info.is_prefix)
CountPrefix(lks) == Cardinality({i \in DOMAIN lks : lks[i].v.info.is_prefix})

RECURSIVE SumPatterns(_)
SumPatterns(lks) ==
    IF lks = <<>> THEN 0
    ELSE Len(Head(lks).v.rearrangement_patterns) + SumPatterns(Tail(lks))

\* The summary parse_file prints last (433-438)
ParsedContentLines(lks, order) ==
    << <<"Parsed content:">>,
       <<"Total lookups:", NumStr(Len(lks))>>,
       <<"Prefix lookups:", NumStr(CountPrefix(lks))>>,
       <<"Feature lookups:", NumStr(Len(lks) - CountPrefix(lks))>>,
       <<"Feature order entries:", NumStr(Len(order))>>,
       <<"Rearrangement patterns found:", NumStr(SumPatterns(lks))>> >>

\* GSUBToAAR(script_filter)
InitGsub ==
    /\ prog = "gsub"
    /\ script_filter \in ScriptFilters
    /\ all_lookups = <<>> /\ feature_order = <<>>
    /\ global_classes = <<>> /\ inline_classes = <<>> /\ class_counter = 0
    /\ hashOrder \in Perms(ScriptTags)
    /\ NoMif
    /\ NoAtif
    /\ NoSem
    /\ NoAar
    /\ NoScan
    /\ stderr = <<>>
    /\ returned = <<>>

\* GSUBToAAR.parse_file(content), for a file that defines the lookups b1, b2,
\* b3, the global classes gc, and whose feature blocks hold the entries order.
ParseFile ==
    /\ prog = "gsub"
    /\ stderr = <<>>
    /\ \E b1 \in Bodies1, b2 \in Bodies2, b3 \in Bodies3,
          order \in FeatureOrders, gc \in GlobalClassDicts :
          LET defs     == Definitions(b1, b2, b3)
              assigned == AssignFeatures(defs, <<>>, order)
              marked   == MarkPrefix(assigned.lookups, order)
          IN  /\ all_lookups' = marked
              /\ feature_order' = order
              /\ global_classes' = gc
              /\ stderr' = << <<"Parsing lines...">> >> \o ParsedLookupLines(defs)
                           \o assigned.printed \o ParsedContentLines(marked, order)
    /\ UNCHANGED <<prog, hashOrder, scan, varsMif, varsAtif, varsSem, varsAar, script_filter,
                   inline_classes, class_counter, returned>>

\* f"CLASS_{n:03d}" for n = 1, 2, ...
GeneratedNames ==
    <<"CLASS_001", "CLASS_002", "CLASS_003", "CLASS_004", "CLASS_005", "CLASS_006">>

\* f"@{class_name}"
RefToken(name) ==
    CASE name = "A" -> "@A"
      [] name = "B" -> "@B"
      [] name = "CLASS_001" -> "@CLASS_001"
      [] name = "CLASS_002" -> "@CLASS_002"
      [] name = "CLASS_003" -> "@CLASS_003"
      [] name = "CLASS_004" -> "@CLASS_004"
      [] name = "CLASS_005" -> "@CLASS_005"
      [] name = "CLASS_006" -> "@CLASS_006"

\* element.startswith('[') and element.endswith(']')
IsInlineClass(e) == Head(e) = "[" /\ e[Len(e)] = "]"

\* element[1:-1].split()
InlineGlyphs(e) == SubSeq(e, 2, Len(e) - 1)

\* The words of an element as a line of text holds them.
ElementWords(e) ==
    IF Head(e) = "@" THEN <<RefToken(e[2])>> ELSE e

\* ', '.join(names)
RECURSIVE CommaJoin(_)
CommaJoin(names) ==
    IF Len(names) <= 1 THEN names
    ELSE <<Head(names), ",">> \o CommaJoin(Tail(names))

\* The first lookup, in dict order, whose local_classes has class_name
LocalClassOwners(class_name) ==
    SelectSeq(all_lookups, LAMBDA kv : Has(kv.v.local_classes, class_name))

\* expand_class_reference: the glyph list it returns
ExpandClassReference(e) ==
    IF Head(e) = "@"
    THEN IF Has(global_classes, e[2]) THEN Get(global_classes, e[2])
         ELSE IF LocalClassOwners(e[2]) # <<>>
              THEN Get(LocalClassOwners(e[2])[1].v.local_classes, e[2])
              ELSE <<>>
    ELSE <<e[1]>>

\* expand_class_reference: the line it prints
ExpandPrinted(e) ==
    IF Head(e) = "@" /\ ~Has(global_classes, e[2]) /\ LocalClassOwners(e[2]) = <<>>
    THEN << <<"Warning: Undefined class", RefToken(e[2])>> >>
    ELSE <<>>

\* register_inline_class without the search for an existing class
RegisterInlineClassAlways(st, glyphs) ==
    LET n == st.class_counter + 1
    IN  [st  |-> [inline_classes |-> Put(st.inline_classes, GeneratedNames[n], glyphs),
                  class_counter  |-> n],
         ref |-> RefToken(GeneratedNames[n])]

\* register_inline_class, on st = (inline_classes, class_counter): the new
\* st and the reference returned
RegisterInlineClass(st, glyphs) ==
    LET same == SelectSeq(st.inline_classes, LAMBDA kv : kv.v = glyphs)
        n    == st.class_counter + 1
    IN  IF same # <<>> THEN [st |-> st, ref |-> RefToken(same[1].k)]
        ELSE [st  |-> [inline_classes |-> Put(st.inline_classes, GeneratedNames[n], glyphs),
                       class_counter  |-> n],
              ref |-> RefToken(GeneratedNames[n])]

\* process_pattern_element: the new st and the words returned
ProcessPatternElement(st, e) ==
    IF IsInlineClass(e) /\ InlineGlyphs(e) # <<>>
    THEN LET reg == RegisterInlineClass(st, InlineGlyphs(e))
         IN  [st |-> reg.st, words |-> <<reg.ref>>]
    ELSE [st |-> st, words |-> ElementWords(e)]

\* ' '.join(process_pattern_element(e) for e in elems)
RECURSIVE ProcessElements(_, _)
ProcessElements(st, elems) ==
    IF elems = <<>> THEN [st |-> st, words |-> <<>>]
    ELSE LET one  == ProcessPatternElement(st, Head(elems))
             rest == ProcessElements(one.st, Tail(elems))
         IN  [st |-> rest.st, words |-> one.words \o rest.words]

\* {sub.source: sub.target for sub in lookup.single_subs}
RECURSIVE SubstitutionDict(_, _)
SubstitutionDict(d, subs) ==
    IF subs = <<>> THEN d
    ELSE SubstitutionDict(Put(d, Head(subs).source, Head(subs).target), Tail(subs))

\* inline_lookup_substitutions that also takes the first target of the
\* lookup's multiple substitutions
InlineLookupSubstitutionsAny(lookup_name) ==
    IF ~Has(all_lookups, lookup_name) THEN <<>>
    ELSE SubstitutionDict(<<>>,
             Get(all_lookups, lookup_name).single_subs
             \o [i \in DOMAIN Get(all_lookups, lookup_name).multiple_subs |->
                   [source |-> Get(all_lookups, lookup_name).multiple_subs[i].source,
                    target |-> Get(all_lookups, lookup_name).multiple_subs[i].targets[1]]])

\* inline_lookup_substitutions: the dict it returns
InlineLookupSubstitutions(lookup_name) ==
    IF ~Has(all_lookups, lookup_name) THEN <<>>
    ELSE SubstitutionDict(<<>>, Get(all_lookups, lookup_name).single_subs)

\* inline_lookup_substitutions: the line it prints
InlineLookupPrinted(lookup_name) ==
    IF ~Has(all_lookups, lookup_name)
    THEN << <<"ERROR: Lookup not found!", lookup_name>> >>
    ELSE <<>>

\* generate_contextual_rules(ctx): the rule lines, the new st, the lines printed
GenerateContextualRules(st, ctx) ==
    LET marked_pos     == ctx.marked_indices[1]
        target_element == ctx.context[marked_pos + 1]
        inline         == IsInlineClass(target_element)
        valid_sources  == IF inline THEN InlineGlyphs(target_element)
                          ELSE ExpandClassReference(target_element)
        printed1       == IF inline THEN <<>> ELSE ExpandPrinted(target_element)
        lookup_name    == Get(ctx.lookup_refs, marked_pos)
        all_subs       == InlineLookupSubstitutions(lookup_name)
        printed2       == printed1 \o InlineLookupPrinted(lookup_name)
        pattern_length == Len(ctx.context)
        Rules(filtered_subs, before_parts, after_parts) ==
        IF ~Has(ctx.lookup_refs, marked_pos)
        THEN [rules |-> << <<"# ERROR: No lookup reference for marked position",
                             NumStr(marked_pos)>> >>,
              st |-> st, printed |-> <<>>]
        ELSE IF valid_sources = <<>>
        THEN [rules |-> << <<"# ERROR: Cannot expand:">> \o ElementWords(target_element) >>,
              st |-> st, printed |-> printed1]
        ELSE IF all_subs = <<>>
        THEN [rules |-> << <<"# ERROR: No substitutions in", lookup_name>> >>,
              st |-> st, printed |-> printed2]
        ELSE IF filtered_subs = <<>>
        THEN [rules |-> << <<"# ERROR: No matching substitutions for">>
                             \o ElementWords(target_element) >>,
              st |-> st, printed |-> printed2]
        ELSE IF pattern_length = 1
        THEN [rules |-> << <<"# ERROR: Single element context pattern:">>
                             \o ElementWords(target_element) >>,
              st |-> st, printed |-> printed2]
        ELSE IF marked_pos = 0
        THEN [rules |-> [i \in DOMAIN filtered_subs |->
                           <<"before">> \o after_parts.words
                           \o <<":", filtered_subs[i].k, "=>", filtered_subs[i].v>>],
              st |-> after_parts.st, printed |-> printed2]
        ELSE IF marked_pos = pattern_length - 1
        THEN [rules |-> [i \in DOMAIN filtered_subs |->
                           <<"after">> \o before_parts.words
                           \o <<":", filtered_subs[i].k, "=>", filtered_subs[i].v>>],
              st |-> before_parts.st, printed |-> printed2]
        ELSE [rules |-> [i \in DOMAIN filtered_subs |->
                           <<"between">> \o before_parts.words \o <<"and">>
                           \o after_parts.words
                           \o <<":", filtered_subs[i].k, "=>", filtered_subs[i].v>>],
              st |-> after_parts.st, printed |-> printed2]
        After(filtered_subs, before_parts) ==
            Rules(filtered_subs, before_parts,
                  ProcessElements(before_parts.st,
                                  SubSeq(ctx.context, marked_pos + 2, pattern_length)))
    IN  After(SelectSeq(all_subs, LAMBDA kv : kv.k \in SeqToSet(valid_sources)),
              ProcessElements(st, SubSeq(ctx.context, 1, marked_pos)))

\* The loop of generate_lookup_output over lookup.contextual_subs (629-641).
\* Every item generate_contextual_rules returns is a str of more than two
\* characters, so the else branch files it under the key "error", in order.
RECURSIVE GroupedRules(_, _)
GroupedRules(acc, subs) ==
    IF subs = <<>> THEN acc
    ELSE LET Extend(one) ==
                 GroupedRules([rules |-> acc.rules \o one.rules, st |-> one.st,
                               printed |-> acc.printed \o one.printed],
                              Tail(subs))
         IN  Extend(GenerateContextualRules(acc.st, Head(subs)))

\* The loop of resolve_rearrangement_pattern from lookup i on
RECURSIVE ResolveFrom(_, _, _)
ResolveFrom(pattern, i, substitutions) ==
    IF i > Len(pattern.lookup_refs)
    THEN [rule |-> IF substitutions # pattern.glyphs
                   THEN << [input_sequence |-> pattern.glyphs,
                            output_sequence |-> substitutions] >>
                   ELSE <<>>,
          printed |-> <<>>]
    ELSE IF ~Has(all_lookups, pattern.lookup_refs[i])
    THEN [rule |-> <<>>,
          printed |-> << <<"Warning: Lookup not found for rearrangement",
                           pattern.lookup_refs[i]>> >>]
    ELSE IF ~Has(InlineLookupSubstitutions(pattern.lookup_refs[i]), pattern.glyphs[i])
    THEN [rule |-> <<>>,
          printed |-> << <<"Warning: Glyph not found in", pattern.glyphs[i],
                           pattern.lookup_refs[i]>> >>]
    ELSE ResolveFrom(pattern, i + 1,
                     Append(substitutions,
                            Get(InlineLookupSubstitutions(pattern.lookup_refs[i]),
                                pattern.glyphs[i])))

\* resolve_rearrangement_pattern
ResolveRearrangementPattern(pattern) == ResolveFrom(pattern, 1, <<>>)

\* The first loop of generate_lookup_output (576-579)
RECURSIVE ResolvePatterns(_, _)
ResolvePatterns(acc, patterns) ==
    IF patterns = <<>> THEN acc
    ELSE LET Extend(one) ==
                 ResolvePatterns([rules |-> acc.rules \o one.rule,
                                  printed |-> acc.printed \o one.printed],
                                 Tail(patterns))
         IN  Extend(ResolveRearrangementPattern(Head(patterns)))

\* any('lookupflag' in line.lower() for line in lookup.raw_lines)
HasLookupflag(lookup) ==
    \E i \in DOMAIN lookup.raw_lines : "lookupflag" \in SeqToSet(lookup.raw_lines[i])

\* One line of an @reorder block (619)
ReorderLine(reorder) ==
    reorder.input_sequence \o <<">">> \o reorder.output_sequence

\* generate_lookup_output(lookup): the lines, the lookup with the rules it
\* resolved, the new st, the lines printed
GenerateLookupOutput(st, lookup) ==
    LET Written(resolved, grouped) ==
        [lines |->
            << AarRule, <<"# Lookup:", lookup.info.name>> >>
            \o (IF lookup.info.features # <<>>
                THEN << <<"# Features:">> \o CommaJoin(lookup.info.features) >> ELSE <<>>)
            \o (IF lookup.info.scripts # <<>>
                THEN << <<"# Scripts:">> \o CommaJoin(lookup.info.scripts) >> ELSE <<>>)
            \o << AarRule >>
            \o (IF HasLookupflag(lookup)
                THEN << <<"# NOTE: Original lookup has lookupflag - AAT uses exact sequential matching">> >>
                ELSE <<>>)
            \o (IF lookup.single_subs # <<>>
                THEN << <<"@simple", "{">> >>
                     \o [i \in DOMAIN lookup.single_subs |->
                           <<lookup.single_subs[i].source, "->", lookup.single_subs[i].target>>]
                     \o << <<"}">> >>
                ELSE <<>>)
            \o (IF lookup.ligatures # <<>>
                THEN << <<"@ligature", "{">> >>
                     \o [i \in DOMAIN lookup.ligatures |->
                           <<lookup.ligatures[i].target, ":=">>
                           \o Join(lookup.ligatures[i].components)]
                     \o << <<"}">> >>
                ELSE <<>>)
            \o (IF lookup.multiple_subs # <<>>
                THEN << <<"@one2many", "{">> >>
                     \o [i \in DOMAIN lookup.multiple_subs |->
                           <<lookup.multiple_subs[i].source, ">">>
                           \o lookup.multiple_subs[i].targets]
                     \o << <<"}">> >>
                ELSE <<>>)
            \o (IF resolved.rules # <<>>
                THEN << <<"@reorder", "{">> >>
                     \o [i \in DOMAIN resolved.rules |-> ReorderLine(resolved.rules[i])]
                     \o << <<"}">> >>
                ELSE <<>>)
            \o (IF lookup.contextual_subs # <<>>
                THEN << <<"@contextual", "{">> >> \o grouped.rules \o << <<"}">> >>
                ELSE <<>>)
            \o << <<>> >>,
         lookup  |-> [lookup EXCEPT !.rearrangement_rules = resolved.rules],
         st      |-> grouped.st,
         printed |-> resolved.printed \o grouped.printed]
    IN  Written(ResolvePatterns([rules |-> lookup.rearrangement_rules, printed |-> <<>>],
                                lookup.rearrangement_patterns),
                GroupedRules([rules |-> <<>>, st |-> st, printed |-> <<>>],
                             lookup.contextual_subs))

\* any(script in lookup.info.scripts for script in self.script_filter)
HasScript(lookup) ==
    \E i \in DOMAIN script_filter : script_filter[i] \in SeqToSet(lookup.info.scripts)

\* should_include_lookup without the test of is_empty
ShouldIncludeLookupNonEmpty(lookup) ==
    /\ ~lookup.info.is_prefix
    /\ script_filter = <<>> \/ HasScript(lookup)

\* should_include_lookup: the value it returns
ShouldIncludeLookup(lookup) ==
    /\ ~lookup.info.is_prefix
    /\ ~IsEmpty(lookup)
    /\ script_filter = <<>> \/ HasScript(lookup)

\* should_include_lookup: the line it prints
SkippingPrinted(lookup) ==
    IF lookup.info.is_prefix THEN << <<"Skipping", lookup.info.name, "is_prefix">> >>
    ELSE IF IsEmpty(lookup) THEN << <<"Skipping", lookup.info.name, "is_empty">> >>
    ELSE IF script_filter # <<>> /\ ~HasScript(lookup)
    THEN << <<"Skipping", lookup.info.name, "no matching script (has:">>
            \o CommaJoin(lookup.info.scripts) \o <<")">> >>
    ELSE <<>>

\* The elements of ctx.context at the positions that are not marked
UnmarkedElements(ctx) ==
    LET at == SelectSeq([i \in DOMAIN ctx.context |-> i],
                        LAMBDA i : (i - 1) \notin SeqToSet(ctx.marked_indices))
    IN  [n \in DOMAIN at |-> ctx.context[at[n]]]

\* The loop of preprocess_inline_classes over feature_order (665-679)
RECURSIVE PreprocessFrom(_, _)
PreprocessFrom(acc, order) ==
    IF order = <<>> THEN acc
    ELSE IF ~Has(all_lookups, Head(order)[3]) THEN PreprocessFrom(acc, Tail(order))
    ELSE LET lookup == Get(all_lookups, Head(order)[3])
             elems  == Flatten([i \in DOMAIN lookup.contextual_subs |->
                                   UnmarkedElements(lookup.contextual_subs[i])])
         IN  IF ~ShouldIncludeLookup(lookup)
             THEN PreprocessFrom([acc EXCEPT !.printed = @ \o SkippingPrinted(lookup)],
                                 Tail(order))
             ELSE PreprocessFrom([acc EXCEPT !.st = ProcessElements(@, elems).st],
                                 Tail(order))

\* preprocess_inline_classes
PreprocessInlineClasses(st) ==
    LET Collected(done) ==
            [st |-> done.st,
             printed |-> << <<"Pre-processing inline classes...">> >> \o done.printed
                         \o << <<"Collected inline classes",
                                 NumStr(Len(done.st.inline_classes))>> >>]
    IN  Collected(PreprocessFrom([st |-> st, printed |-> <<>>], feature_order))

GsubBanner == <<"# ============================================================================">>

\* set(lookup.info.scripts), in the order the hash seed gives
ScriptSet(scripts) == SelectSeq(hashOrder, LAMBDA t : t \in SeqToSet(scripts))

\* sorted(self.inline_classes.keys())
SortedGenerated(d) == SelectSeq(GeneratedNames, LAMBDA n : Has(d, n))

\* The "@class NAME = glyphs" lines of a class dict, by sorted name
ClassDefinitionLines(d, names) ==
    [i \in DOMAIN names |-> <<"@class", names[i], "=">> \o Get(d, names[i])]

\* The lines of generate_output before the loop over feature_order (687-716)
OutputHead(inline) ==
    << GsubBanner,
       <<"# Converted from OpenType GSUB to unified .aar format">>,
       <<"# Source: FEA converted from TTX (ttx -t GSUB font.otf)">> >>
    \o (IF script_filter # <<>>
        THEN << <<"# Script filter:">> \o CommaJoin(script_filter) >> ELSE <<>>)
    \o << GsubBanner, <<>> >>
    \o (IF global_classes # <<>>
        THEN << AarRule, <<"# GLOBAL CLASS DEFINITIONS (from source)">>, AarRule, <<>> >>
             \o ClassDefinitionLines(global_classes, Sorted(SeqToSet(Keys(global_classes))))
             \o << <<>> >>
        ELSE <<>>)
    \o (IF inline # <<>>
        THEN << AarRule, <<"# GENERATED CLASS DEFINITIONS (from inline classes)">>,
                AarRule, <<>> >>
             \o ClassDefinitionLines(inline, SortedGenerated(inline))
             \o << <<>> >>
        ELSE <<>>)

\* The loop of generate_output over feature_order without the test of
\* processed_lookups
RECURSIVE OutputFromRepeated(_, _)
OutputFromRepeated(acc, order) ==
    IF order = <<>> THEN acc
    ELSE LET feature_name == Head(order)[1]
             lookup_name  == Head(order)[3]
         IN  IF ~Has(acc.lks, lookup_name)
             THEN OutputFromRepeated([acc EXCEPT !.printed =
                                @ \o << <<"Lookup not in all_lookups", lookup_name>> >>],
                             Tail(order))
             ELSE LET lookup == Get(acc.lks, lookup_name)
                      banner == IF feature_name # acc.current_feature
                                THEN << <<>>, GsubBanner, <<"# Feature:", feature_name>> >>
                                     \o (IF lookup.info.scripts # <<>>
                                         THEN << <<"# Scripts:">>
                                                 \o CommaJoin(ScriptSet(lookup.info.scripts)) >>
                                         ELSE <<>>)
                                     \o << GsubBanner, <<>> >>
                                ELSE <<>>
                      Emitted(gen) ==
                      IF ~ShouldIncludeLookup(lookup)
                      THEN OutputFromRepeated([acc EXCEPT !.printed = @ \o SkippingPrinted(lookup)],
                                      Tail(order))
                      ELSE OutputFromRepeated(
                               [output          |-> acc.output \o banner \o gen.lines,
                                lks             |-> Put(acc.lks, lookup_name, gen.lookup),
                                st              |-> gen.st,
                                printed         |-> acc.printed
                                                    \o << <<"Generating output for", lookup_name>> >>
                                                    \o gen.printed,
                                current_feature |-> feature_name,
                                processed       |-> acc.processed \cup {lookup_name}],
                               Tail(order))
                  IN  Emitted(GenerateLookupOutput(acc.st, lookup))

\* The loop of generate_output over feature_order (723-745), on
\* acc = (output, all_lookups, st, printed, current_feature, processed_lookups)
RECURSIVE OutputFrom(_, _)
OutputFrom(acc, order) ==
    IF order = <<>> THEN acc
    ELSE LET feature_name == Head(order)[1]
             lookup_name  == Head(order)[3]
         IN  IF ~Has(acc.lks, lookup_name)
             THEN OutputFrom([acc EXCEPT !.printed =
                                @ \o << <<"Lookup not in all_lookups", lookup_name>> >>],
                             Tail(order))
             ELSE LET lookup == Get(acc.lks, lookup_name)
                      banner == IF feature_name # acc.current_feature
                                THEN << <<>>, GsubBanner, <<"# Feature:", feature_name>> >>
                                     \o (IF lookup.info.scripts # <<>>
                                         THEN << <<"# Scripts:">>
                                                 \o CommaJoin(ScriptSet(lookup.info.scripts)) >>
                                         ELSE <<>>)
                                     \o << GsubBanner, <<>> >>
                                ELSE <<>>
                      Emitted(gen) ==
                      IF ~ShouldIncludeLookup(lookup)
                      THEN OutputFrom([acc EXCEPT !.printed = @ \o SkippingPrinted(lookup)],
                                      Tail(order))
                      ELSE IF lookup_name \in acc.processed
                      THEN OutputFrom(acc, Tail(order))
                      ELSE OutputFrom(
                               [output          |-> acc.output \o banner \o gen.lines,
                                lks             |-> Put(acc.lks, lookup_name, gen.lookup),
                                st              |-> gen.st,
                                printed         |-> acc.printed
                                                    \o << <<"Generating output for", lookup_name>> >>
                                                    \o gen.printed,
                                current_feature |-> feature_name,
                                processed       |-> acc.processed \cup {lookup_name}],
                               Tail(order))
                  IN  Emitted(GenerateLookupOutput(acc.st, lookup))

\* GSUBToAAR.generate_output()
GenerateOutput ==
    /\ prog = "gsub"
    /\ stderr # <<>>
    /\ Len(returned) < MaxCalls
    /\ LET Returned(done) ==
               /\ all_lookups' = done.lks
               /\ inline_classes' = done.st.inline_classes
               /\ class_counter' = done.st.class_counter
               /\ stderr' = stderr \o done.printed
               /\ returned' = Append(returned, done.output)
           Generated(pre) ==
               Returned(OutputFrom([output |-> OutputHead(pre.st.inline_classes),
                                    lks |-> all_lookups, st |-> pre.st,
                                    printed |-> pre.printed \o << <<"Generating output...">> >>,
                                    current_feature |-> "", processed |-> {}],
                                   feature_order))
       IN  Generated(PreprocessInlineClasses([inline_classes |-> inline_classes,
                                              class_counter  |-> class_counter]))
    /\ UNCHANGED <<prog, hashOrder, scan, varsMif, varsAtif, varsSem, varsAar, script_filter,
                   feature_order, global_classes>>

\* The text generate_output returned is written to the .aar file and read
\* by convert_aar_to_mif: AARParser(aar_content).parse()
ParseGenerated ==
    /\ prog = "gsub"
    /\ returned # <<>>
    /\ aar_content = <<>>
    /\ LET text   == returned[Len(returned)]
           parsed == ParseLookupsFrom(<<>>, text, 1)
       IN  /\ aar_content' = text
           /\ classes' = ParseClasses(classes, text)
           /\ lookups' = lookups \o parsed.lookups
           /\ raised' = parsed.raised
    /\ UNCHANGED <<prog, hashOrder, scan, glyph_memberships, partitions, output, varsAtif,
                   varsSem, varsGsub, stderr, returned>>

NextGsub == ParseFile \/ GenerateOutput \/ ParseGenerated

SpecGsub == InitGsub /\ [][NextGsub]_vars

----------------------------------------------------------------------------
(* Reading the text generate_output returned.                              *)

\* The lines of text that open the block of the lookup called name.
BlockHeadersOf(text, name) == {i \in DOMAIN text : text[i] = <<"# Lookup:", name>>}

\* The text has a block of the lookup.
HasBlock(text, name) == BlockHeadersOf(text, name) # {}

\* The lines of the block that line i opens: up to the empty line that
\* generate_lookup_output puts last.
BlockLinesFrom(text, i) ==
    LET stop == CHOOSE j \in i..(Len(text) + 1) :
                    /\ j = Len(text) + 1 \/ text[j] = <<>>
                    /\ \A k \in i..(j - 1) : text[k] # <<>>
    IN  SubSeq(text, i, stop - 1)

\* The contextual rule lines of the blocks of the lookup.
RuleLinesOf(text, name) ==
    UNION {{l \in SeqToSet(BlockLinesFrom(text, i)) :
               Head(l) \in {"before", "after", "between"}} : i \in BlockHeadersOf(text, name)}

\* The word a rule for ctx starts with, by the place of its marked element.
KindOf(ctx) ==
    IF ctx.marked_indices[1] = 0 THEN "before"
    ELSE IF ctx.marked_indices[1] = Len(ctx.context) - 1 THEN "after"
    ELSE "between"

\* The auxiliary lookup the contextual rule refers to.
AuxOf(ctx) == Get(ctx.lookup_refs, ctx.marked_indices[1])

\* The single substitutions of the auxiliary lookup (none if it is undefined).
AuxSingles(ctx) ==
    IF Has(all_lookups, AuxOf(ctx)) THEN SeqToSet(Get(all_lookups, AuxOf(ctx)).single_subs)
    ELSE {}

\* The glyphs the marked element of ctx stands for.
MarkedGlyphs(ctx) ==
    LET e == ctx.context[ctx.marked_indices[1] + 1]
    IN  SeqToSet(IF IsInlineClass(e) THEN InlineGlyphs(e) ELSE ExpandClassReference(e))

\* line is "<kind> ... : source => target"
IsRuleFor(line, kind, sub) ==
    /\ Head(line) = kind
    /\ Len(line) >= 5
    /\ SubSeq(line, Len(line) - 3, Len(line)) = <<":", sub.source, "=>", sub.target>>

(* C17: a contextual rule whose auxiliary lookup is undefined or has no    *)
(* single substitutions gets no rule line: every before/after/between line *)
(* of a lookup's block carries a single substitution of the auxiliary      *)
(* lookup of one of the lookup's rules of that kind.  The other rules of   *)
(* the same lookup are still emitted: a rule whose auxiliary lookup has a  *)
(* single substitution for a glyph of its marked element has its line.     *)
C17_UndefinedAuxExcluded ==
    prog = "gsub" =>
        \A r \in DOMAIN returned : \A n \in DOMAIN all_lookups :
            LET name  == all_lookups[n].k
                ctxs  == SeqToSet(all_lookups[n].v.contextual_subs)
                lines == RuleLinesOf(returned[r], name)
            IN  /\ \A l \in lines : \E ctx \in ctxs : \E sub \in AuxSingles(ctx) :
                       IsRuleFor(l, KindOf(ctx), sub)
                /\ HasBlock(returned[r], name) =>
                       \A ctx \in ctxs : \A sub \in AuxSingles(ctx) :
                           sub.source \in MarkedGlyphs(ctx) =>
                               \E l \in lines : IsRuleFor(l, KindOf(ctx), sub)

\* A lookup with two contextual rules was emitted: the first has its rule
\* line, the second refers to a lookup that is undefined or has no single
\* substitutions, and its place holds the error comment.
C17_Witness ==
    /\ prog = "gsub" /\ returned # <<>>
    /\ \E n \in DOMAIN all_lookups :
          LET lk == all_lookups[n].v
          IN  /\ Len(lk.contextual_subs) = 2
              /\ AuxSingles(lk.contextual_subs[2]) = {}
              /\ AuxSingles(lk.contextual_subs[1]) # {}
              /\ Cardinality(RuleLinesOf(returned[Len(returned)], all_lookups[n].k)) = 1
              /\ \E i \in DOMAIN returned[Len(returned)] :
                    returned[Len(returned)][i]
                        = <<"# ERROR: No substitutions in", AuxOf(lk.contextual_subs[2])>>

ScriptsReferring(name) ==
    {feature_order[n][2] : n \in {m \in DOMAIN feature_order : feature_order[m][3] = name}}

(* C20: the text generate_output returns has a block of lookup L exactly   *)
(* when L is defined, some feature block refers to it, it is not empty,    *)
(* and either there is no script filter or one of the scripts under which  *)
(* L is referred to is in the filter.                                      *)
C20_BlockIffIncluded ==
    prog = "gsub" =>
        \A r \in DOMAIN returned :
            \A name \in SeqToSet(Keys(all_lookups))
                         \cup {feature_order[n][3] : n \in DOMAIN feature_order} :
                HasBlock(returned[r], name)
                    <=> /\ Has(all_lookups, name)
                        /\ ScriptsReferring(name) # {}
                        /\ ~IsEmpty(Get(all_lookups, name))
                        /\ \/ script_filter = <<>>
                           \/ SeqToSet(script_filter) \cap ScriptsReferring(name) # {}

\* With a script filter set, generate_output returned a text that has the
\* block of one lookup, and has no block for a lookup no feature refers to
\* nor for a lookup that is referred to only under another script.
C20_Witness ==
    /\ prog = "gsub" /\ returned # <<>> /\ script_filter # <<>>
    /\ \E a, b, c \in DOMAIN all_lookups :
          /\ HasBlock(returned[Len(returned)], all_lookups[a].k)
          /\ ScriptsReferring(all_lookups[b].k) = {}
          /\ ~HasBlock(returned[Len(returned)], all_lookups[b].k)
          /\ ScriptsReferring(all_lookups[c].k) # {}
          /\ ~IsEmpty(all_lookups[c].v)
          /\ ~HasBlock(returned[Len(returned)], all_lookups[c].k)

----------------------------------------------------------------------------
(* The order of the lookup blocks in the text generate_output returned.    *)

\* The names of the lookup blocks of text, in the order of their headers.
BlockNamesOf(text) ==
    LET headers == SelectSeq(text, LAMBDA l : Len(l) = 2 /\ l[1] = "# Lookup:")
    IN  [i \in DOMAIN headers |-> headers[i][2]]

\* The place of the first entry of feature_order that names the lookup.
FirstReference(name) ==
    CHOOSE n \in DOMAIN feature_order :
        /\ feature_order[n][3] = name
        /\ \A m \in 1..(n - 1) : feature_order[m][3] # name

(* C21: the lookup blocks of the returned text are in the order in which   *)
(* the feature blocks first name their lookups, and no lookup has two      *)
(* blocks, however many features or scripts name it.                       *)
C21_FeatureOrderPreserved ==
    prog = "gsub" =>
        \A r \in DOMAIN returned :
            LET names == BlockNamesOf(returned[r])
            IN  /\ \A i \in DOMAIN names : ScriptsReferring(names[i]) # {}
                /\ \A i, j \in DOMAIN names :
                      i < j => FirstReference(names[i]) < FirstReference(names[j])

\* Two lookups were emitted, and the feature blocks name the first of them
\* again after the second.
C21_Witness ==
    /\ prog = "gsub" /\ returned # <<>>
    /\ Len(BlockNamesOf(returned[Len(returned)])) = 2
    /\ \E n \in DOMAIN feature_order :
          /\ feature_order[n][3] = BlockNamesOf(returned[Len(returned)])[1]
          /\ n > FirstReference(BlockNamesOf(returned[Len(returned)])[2])

\* The rule lists of every lookup, as ParsedLookup holds them.
RuleLists(lks) ==
    [i \in DOMAIN lks |->
        <<lks[i].k, lks[i].v.single_subs, lks[i].v.ligatures, lks[i].v.multiple_subs,
          lks[i].v.contextual_subs, lks[i].v.rearrangement_rules,
          lks[i].v.rearrangement_patterns>>]

(* C28: a call of generate_output leaves the rule lists of every lookup    *)
(* as they were before the call.                                           *)
C28_OutputLeavesRules ==
    [][(prog = "gsub" /\ returned' # returned)
          => RuleLists(all_lookups') = RuleLists(all_lookups)]_vars

(* C28: a second call of generate_output returns the text the first call   *)
(* returned.                                                               *)
C28_SecondCallSameText ==
    prog = "gsub" => \A r \in DOMAIN returned : returned[r] = returned[1]

----------------------------------------------------------------------------
(* GSUBToAAR.register_inline_class called on its own.                      *)

MaxRegistrations == 4   \* calls of register_inline_class on one converter

\* The glyph lists of the inline classes [a], [b], [a a], [a b], ...
InlineGlyphLists == SeqsUpTo({"a", "b"}, 2) \ {<<>>}

\* GSUBToAAR()
InitInline ==
    /\ prog = "inline"
    /\ hashOrder = <<>>
    /\ NoMif
    /\ NoAtif
    /\ NoSem
    /\ NoAar
    /\ NoGsub
    /\ NoScan
    /\ stderr = <<>>
    /\ returned = <<>>

\* self.register_inline_class(glyphs)
RegisterInline ==
    /\ prog = "inline"
    /\ Len(returned) < MaxRegistrations
    /\ \E glyphs \in InlineGlyphLists :
          LET Registered(reg) ==
                  /\ inline_classes' = reg.st.inline_classes
                  /\ class_counter' = reg.st.class_counter
                  /\ returned' = Append(returned, [glyphs |-> glyphs, ref |-> reg.ref])
          IN  Registered(RegisterInlineClass([inline_classes |-> inline_classes,
                                              class_counter  |-> class_counter], glyphs))
    /\ UNCHANGED <<prog, hashOrder, scan, varsMif, varsAtif, varsSem, varsAar, script_filter,
                   all_lookups, feature_order, global_classes, stderr>>

NextInline == RegisterInline

SpecInline == InitInline /\ [][NextInline]_vars

(* C30: after any calls of register_inline_class, two calls returned the   *)
(* same @CLASS_nnn name exactly when they had the same glyph sequence, the *)
(* name each call returned is the key under which inline_classes holds its *)
(* glyphs, class_counter is the number of inline classes, and the names    *)
(* are CLASS_001 .. CLASS_{class_counter} in this order.                   *)
C30_NamesOneToOne ==
    prog = "inline" =>
        /\ \A i, j \in DOMAIN returned :
              (returned[i].glyphs = returned[j].glyphs) <=> (returned[i].ref = returned[j].ref)
        /\ \A i \in DOMAIN returned :
              \E n \in DOMAIN inline_classes :
                  /\ RefToken(inline_classes[n].k) = returned[i].ref
                  /\ inline_classes[n].v = returned[i].glyphs
        /\ class_counter = Len(inline_classes)
        /\ Keys(inline_classes) = SubSeq(GeneratedNames, 1, class_counter)

\* Four calls, one glyph sequence registered twice with another in between:
\* three classes.
C30_Witness ==
    /\ prog = "inline" /\ Len(returned) = 4 /\ class_counter = 3
    /\ returned[1].glyphs = returned[3].glyphs
    /\ returned[2].glyphs # returned[1].glyphs

----------------------------------------------------------------------------
(* GSUBToAAR.parse_contextual_substitution: the loop that scans the        *)
(* pattern of "sub <pattern> by lookup_N;", one character at a time.       *)
(* A str is the sequence of its characters; indices are Python's, from 0.  *)

MaxPatternLen == 4      \* characters of the pattern of a statement
MaxElements   == 6      \* elements the scan may collect before it is cut off

\* The characters of the patterns: a glyph letter, the mark, a space, brackets
PatternChars == {"a", "'", " ", "[", "]"}

\* match.group(1).strip(): no space first or last
PatternParts ==
    {p \in SeqsUpTo(PatternChars, MaxPatternLen) :
        p # <<>> => (p[1] # " " /\ p[Len(p)] # " ")}

\* s[i], for 0 <= i < len(s)
CharAt(str, n) == str[n + 1]

\* s[a:b]
Slice(str, a, b) == SubSeq(str, a + 1, b)

\* the first n >= from with pattern_part[n] not a space, or len(pattern_part)
SkipSpaces(str, from) ==
    CHOOSE n \in from..Len(str) :
        /\ n = Len(str) \/ CharAt(str, n) # " "
        /\ \A m \in from..(n - 1) : CharAt(str, m) = " "

\* pattern_part.find(']', i): -1 if there is none
FindClose(str, from) ==
    IF \E n \in from..(Len(str) - 1) : CharAt(str, n) = "]"
    THEN CHOOSE n \in from..(Len(str) - 1) :
             /\ CharAt(str, n) = "]"
             /\ \A m \in from..(n - 1) : CharAt(str, m) # "]"
    ELSE -1

\* the first n >= from where the token ends: a space, a bracket, or the end
TokenEnd(str, from) ==
    CHOOSE n \in from..Len(str) :
        /\ n = Len(str) \/ CharAt(str, n) \in {" ", "[", "]"}
        /\ \A m \in from..(n - 1) : CharAt(str, m) \notin {" ", "[", "]"}

\* The call parse_contextual_substitution(line, lookup) has matched the
\* line and set elements = [], marked_indices = [], idx = 0, i = 0.
InitScan ==
    /\ prog = "scan"
    /\ \E p \in PatternParts :
          scan = [pattern_part |-> p, i |-> 0, idx |-> 0, elements |-> <<>>,
                  marked_indices |-> <<>>, at |-> "while"]
    /\ hashOrder = <<>>
    /\ NoMif
    /\ NoAtif
    /\ NoSem
    /\ NoAar
    /\ NoGsub
    /\ stderr = <<>>
    /\ returned = <<>>

\* One iteration of "while i < len(pattern_part)" (230-258), or its exit
ScanStep ==
    /\ prog = "scan"
    /\ scan.at = "while"
    /\ Len(scan.elements) < MaxElements
    /\ LET pattern_part == scan.pattern_part
           i     == SkipSpaces(pattern_part, scan.i)
           end   == FindClose(pattern_part, i)
           is_marked == end + 1 < Len(pattern_part) /\ CharAt(pattern_part, end + 1) = "'"
           stop  == TokenEnd(pattern_part, i)
           token == Slice(pattern_part, i, stop)
       IN  scan' =
             IF scan.i >= Len(pattern_part) THEN [scan EXCEPT !.at = "after"]
             ELSE IF i >= Len(pattern_part) THEN [scan EXCEPT !.i = i, !.at = "after"]
             ELSE IF CharAt(pattern_part, i) = "["
             THEN IF end = -1 THEN [scan EXCEPT !.i = i, !.at = "after"]
                  ELSE [scan EXCEPT
                          !.elements = Append(@, <<"[">> \o Slice(pattern_part, i + 1, end)
                                                 \o <<"]">>),
                          !.marked_indices = IF is_marked THEN Append(@, scan.idx) ELSE @,
                          !.i = IF is_marked THEN end + 2 ELSE end + 1,
                          !.idx = @ + 1]
             ELSE IF token # <<>> /\ token[Len(token)] = "'"
             THEN [scan EXCEPT !.elements = Append(@, SubSeq(token, 1, Len(token) - 1)),
                               !.marked_indices = Append(@, scan.idx),
                               !.i = stop, !.idx = @ + 1]
             ELSE [scan EXCEPT !.elements = Append(@, token), !.i = stop, !.idx = @ + 1]
    /\ UNCHANGED <<prog, hashOrder, varsMif, varsAtif, varsSem, varsAar, varsGsub,
                   stderr, returned>>

\* After the loop (260-268): False, or the ContextualSubstitution appended
ScanReturn ==
    /\ prog = "scan"
    /\ scan.at = "after"
    /\ scan' = [scan EXCEPT !.at = "returned"]
    /\ returned' = Append(returned,
                          IF scan.elements = <<>> \/ scan.marked_indices = <<>>
                          THEN [ok |-> FALSE, elements |-> <<>>, marked_indices |-> <<>>]
                          ELSE [ok |-> TRUE, elements |-> scan.elements,
                                marked_indices |-> scan.marked_indices])
    /\ UNCHANGED <<prog, hashOrder, varsMif, varsAtif, varsSem, varsAar, varsGsub,
                   stderr>>

NextScan == ScanStep \/ ScanReturn

SpecScan == InitScan /\ [][NextScan]_vars

(* C27: every iteration of the scanning loop of                            *)
(* parse_contextual_substitution moves the scan position i forward, or     *)
(* leaves the loop.                                                        *)
C27_ScanAdvances ==
    [][(prog = "scan" /\ scan.at = "while" /\ scan'.at = "while") => scan'.i > scan.i]_vars

----------------------------------------------------------------------------
(* MIFGenerator._write_match_class and _generate_state_machine called on   *)
(* their own, with glyph lists and partitions of any size.                 *)

MaxMatchGlyphs == 21    \* glyphs of the match class written
MaxMatches     == 4     \* partitions the state machine is generated for

\* Glyph names, all different
MatchGlyphNames ==
    <<"g01", "g02", "g03", "g04", "g05", "g06", "g07", "g08", "g09", "g10", "g11", "g12",
      "g13", "g14", "g15", "g16", "g17", "g18", "g19", "g20", "g21", "g22", "g23", "g24">>

\* The comments _generate_contextual passes: none, or "// <partition name>"
MatchComments3 == {<<>>, <<"//", "PRED_", "A">>, <<"//", "PRED_", "B">>}

\* MIFGenerator(classes, lookups) with nothing written yet
InitMifCalls ==
    /\ prog = "mifcall"
    /\ hashOrder = <<>>
    /\ NoMif
    /\ NoAtif
    /\ NoSem
    /\ NoAar
    /\ NoGsub
    /\ NoScan
    /\ stderr = <<>>
    /\ returned = <<>>

\* self._write_match_class(num, glyphs, comment)
WriteMatchClassCall ==
    /\ prog = "mifcall"
    /\ returned = <<>>
    /\ \E num \in 1..MaxMatches, n \in 0..MaxMatchGlyphs, comment \in MatchComments3 :
          /\ output' = output \o WriteMatchClass(num, SubSeq(MatchGlyphNames, 1, n), comment)
          /\ returned' = <<[call |-> "_write_match_class", num |-> num,
                            glyphs |-> SubSeq(MatchGlyphNames, 1, n), comment |-> comment]>>
    /\ UNCHANGED <<prog, hashOrder, scan, varsAar, varsGsub, stderr, classes,
                   glyph_memberships, partitions, lookups, varsAtif, varsSem>>

\* self._generate_state_machine(rules, partitions)
GenerateStateMachineCall ==
    /\ prog = "mifcall"
    /\ returned = <<>>
    /\ \E n \in 0..MaxMatches, rules \in SeqsUpTo(ContextualRules, 1) :
          LET parts == [i \in 1..n |-> [k |-> <<"PRED_", MatchGlyphNames[i]>>,
                                        v |-> <<MatchGlyphNames[i]>>]]
          IN  /\ output' = output \o StateMachineLines(rules, parts)
              /\ returned' = <<[call |-> "_generate_state_machine", rules |-> rules,
                                partitions |-> parts]>>
    /\ UNCHANGED <<prog, hashOrder, scan, varsAar, varsGsub, stderr, classes,
                   glyph_memberships, partitions, lookups, varsAtif, varsSem>>

NextMifCalls == WriteMatchClassCall \/ GenerateStateMachineCall

SpecMifCalls == InitMifCalls /\ [][NextMifCalls]_vars

\* The lines _write_match_class wrote: self.output without the '' it ends with
WrittenMatchLines == SubSeq(output, 1, Len(output) - 1)

\* The glyphs a written line lists, in order: what follows "Match" N or "+",
\* up to the comment
LineGlyphs(line) ==
    UpToComment(IF Head(line) = "Match" THEN Drop(line, 2) ELSE Drop(line, 1))

(* C22: _write_match_class writes a first line that starts with MatchN and *)
(* following lines that start with "+", no line lists more than 10         *)
(* glyphs, and the glyphs of the lines, in order, are the glyph list it    *)
(* was given, whatever its length.                                         *)
C22_MatchClassWrapped ==
    (prog = "mifcall" /\ returned # <<>> /\ returned[1].call = "_write_match_class") =>
        LET lines == WrittenMatchLines
        IN  /\ output[Len(output)] = <<>>
            /\ lines # <<>>
            /\ SubSeq(lines[1], 1, 2) = <<"Match", NumStr(returned[1].num)>>
            /\ \A i \in 2..Len(lines) : Head(lines[i]) = "+"
            /\ \A i \in DOMAIN lines : Len(LineGlyphs(lines[i])) <= 10
            /\ Flatten([i \in DOMAIN lines |-> LineGlyphs(lines[i])]) = returned[1].glyphs

\* A class of 21 glyphs was written: three lines, the last with one glyph
\* and the comment.
C22_Witness ==
    /\ prog = "mifcall" /\ returned # <<>> /\ returned[1].call = "_write_match_class"
    /\ Len(returned[1].glyphs) = 21
    /\ returned[1].comment # <<>>
    /\ Len(output) = 4
    /\ Len(LineGlyphs(output[3])) = 1

\* The lines of the text from line h up to the next empty line
TableLinesFrom(text, h) ==
    LET stop == CHOOSE j \in h..(Len(text) + 1) :
                    /\ j = Len(text) + 1 \/ text[j] = <<>>
                    /\ \A k \in h..(j - 1) : text[k] # <<>>
    IN  SubSeq(text, h, stop - 1)

\* The entries of the action table under the state table whose header is
\* line h: the lines after the "GoTo" line, up to the empty line
ActionEntries(text, h) ==
    LET goto == CHOOSE j \in h..Len(text) :
                    /\ text[j] # <<>> /\ Head(text[j]) = "GoTo"
                    /\ \A k \in h..(j - 1) : text[k] = <<>> \/ Head(text[k]) # "GoTo"
    IN  SeqToSet(TableLinesFrom(text, goto + 1))

(* C26: the state table _generate_state_machine writes for N partitions    *)
(* has the header EOT OOB DEL EOL Match1 .. MatchN, every state row has a  *)
(* name and 4 + N cells, and every cell is the id of an entry of the       *)
(* action table written under it.                                          *)
C26_StateTableWellFormed ==
    (prog = "mifcall" /\ returned # <<>> /\ returned[1].call = "_generate_state_machine") =>
        LET N     == Len(returned[1].partitions)
            table == TableLinesFrom(output, 1)
            ids   == {Head(e) : e \in ActionEntries(output, 1)}
        IN  /\ table[1] = <<"EOT", "OOB", "DEL", "EOL">>
                           \o Flatten([i \in 1..N |-> <<"Match", NumStr(i)>>])
            /\ Len(table) > 1
            /\ \A r \in 2..Len(table) :
                  /\ Len(table[r]) = 1 + 4 + N
                  /\ \A c \in 2..Len(table[r]) : table[r][c] \in ids

\* The table was written for three partitions: a column that marks, a
\* column that does nothing and a column that substitutes.
C26_Witness ==
    /\ prog = "mifcall" /\ returned # <<>> /\ returned[1].call = "_generate_state_machine"
    /\ Len(returned[1].partitions) = 3
    /\ output[3] = <<"SawMatch1", "1", "1", "3", "1", "2", "1", "4">>
    /\ Cardinality(ActionEntries(output, 1)) = 4

\* The entry of the action table under header line h that has the id
ActionOf(text, h, id) == CHOOSE e \in ActionEntries(text, h) : Head(e) = id

\* The header lines of the Contextual state tables of the text
ContextualTables(text) ==
    {h \in DOMAIN text :
        /\ text[h] # <<>> /\ Head(text[h]) = "EOT"
        /\ h + 2 <= Len(text)
        /\ text[h + 2] # <<>> /\ Head(text[h + 2]) = "SawMatch1"}

(* C24: in every Contextual state table of the emitted text that has at    *)
(* least one match class, some match column of StartText leads to an       *)
(* action that marks and goes to SawMatch1, and some match column of       *)
(* SawMatch1 leads to an action whose SubstMark or SubstCurrent is not     *)
(* none.                                                                   *)
C24_SubstitutionCanFire ==
    (prog = "mif" /\ returned # <<>>) =>
        LET text == returned[Len(returned)]
        IN  \A h \in ContextualTables(text) :
              Len(text[h]) > 4 =>
                 /\ \E c \in 6..Len(text[h + 1]) :
                       LET a == ActionOf(text, h, text[h + 1][c])
                       IN  a[2] = "SawMatch1" /\ a[3] = "yes"
                 /\ \E c \in 6..Len(text[h + 2]) :
                       LET a == ActionOf(text, h, text[h + 2][c])
                       IN  a[5] # "none" \/ a[6] # "none"

\* How many times the glyph is listed in the partitions of the map
Listings(P, g) ==
    Cardinality({<<i, j>> \in (DOMAIN P) \X (1..(MaxCalls * 2 * MaxClassLen)) :
                    j \in DOMAIN P[i].v /\ P[i].v[j] = g})

(* C29: a second call of partition() on the same ClassPartitioner returns  *)
(* the map the first call returned, and every glyph of the classes is      *)
(* listed exactly once in it.                                              *)
C29_PartitionIdempotent ==
    (prog = "part" /\ Len(returned) = 2) =>
        /\ returned[2] = returned[1]
        /\ \A g \in GlyphsOfClasses : Listings(returned[2], g) = 1

\* The line of the mark-to-base subtable that opens the base anchors
BaseAnchorsComment(text) ==
    CHOOSE j \in DOMAIN text :
        /\ SubtableOf(text, j) = 1
        /\ text[j] \in {<<"// Base anchors (sequential indices per mark class)">>,
                        <<"// Base anchors (sequential indices per semantic)">>}

\* The anchor lines of the mark-to-base subtable before (mark anchors) and
\* after (base anchors) that line
Table1MarkAnchors(text) ==
    {text[j] : j \in {k \in AnchorLinesOf(text) :
                         SubtableOf(text, k) = 1 /\ k < BaseAnchorsComment(text)}}

Table1BaseAnchors(text) ==
    {text[j] : j \in {k \in AnchorLinesOf(text) :
                         SubtableOf(text, k) = 1 /\ k > BaseAnchorsComment(text)}}

\* The (base, position of the group) pairs the parsed bases have an anchor for
BaseGroupPairs ==
    {bi \in (DOMAIN bases) \X (DOMAIN group_names) :
        Has(bases[bi[1]].v, group_names[bi[2]])}

\* The anchor line of the pair: the base's point for the group, at the
\* position of the group counted from 0
BaseAnchorOfPair(bi) ==
    AnchorLine(bases[bi[1]].k, bi[2] - 1,
               Get(bases[bi[1]].v, group_names[bi[2]])[1],
               Get(bases[bi[1]].v, group_names[bi[2]])[2])

\* The (position of the group, mark line) pairs of the parsed mark groups
MarkGroupPairs ==
    {gm \in (DOMAIN mark_groups) \X (1..MaxMarks) : gm[2] \in DOMAIN mark_groups[gm[1]].v}

MarkAnchorOfPair(gm) ==
    AnchorLine(mark_groups[gm[1]].v[gm[2]].glyph, 0,
               mark_groups[gm[1]].v[gm[2]].x, mark_groups[gm[1]].v[gm[2]].y)

LinesOfBlock(text, h) ==
    LET stop == CHOOSE j \in (h + 1)..Len(text) :
                    /\ text[j] = <<"};">>
                    /\ \A k \in (h + 1)..(j - 1) : text[k] # <<"};">>
    IN  SubSeq(text, h + 1, stop - 1)

\* The lines of the mark-to-base subtable: from the first line that opens a
\* control-point subtable up to the next one, or to the end of the text
Table1Of(text) ==
    LET opens == {j \in DOMAIN text : text[j] = SubtableOpen}
        first == CHOOSE j \in opens : \A k \in opens : j <= k
        later == opens \ {first}
    IN  SubSeq(text, first,
               IF later = {} THEN Len(text)
               ELSE (CHOOSE j \in later : \A k \in later : j <= k) - 1)

\* The arcs of the state machine of the subtable: in state from, a glyph of
\* class on takes transition via
ArcsOf(table) ==
    UNION {{[from |-> table[h][2], on |-> l[1], via |-> l[3]] :
               l \in SeqToSet(LinesOfBlock(table, h))} :
           h \in {j \in DOMAIN table : Len(table[j]) = 3 /\ table[j][1] = "state"}}

\* The lines of the transition of that name in the subtable
TransitionOf(table, name) ==
    SeqToSet(LinesOfBlock(table, CHOOSE j \in DOMAIN table :
                                    table[j] = <<"transition", name, "{">>))

HasKerningAction(table, name) ==
    \E l \in TransitionOf(table, name) : Head(l) = "kerning action:"

GoesTo(table, name, state) == <<"change state to", state>> \in TransitionOf(table, name)

MarksGlyph(table, name) == <<"mark glyph;">> \in TransitionOf(table, name)

\* What the claim says of the machine with these arcs
AttachOnlyWithBase(table, arcs) ==
    /\ \A arc \in arcs :
          /\ HasKerningAction(table, arc.via) =>
                /\ arc.from = "withBase"
                /\ arc.on \in {MarksClass(g) : g \in GroupNames}
                /\ GoesTo(table, arc.via, "withBase")
                /\ ~MarksGlyph(table, arc.via)
          /\ arc.from = "Start" => ~HasKerningAction(table, arc.via)
          /\ (arc.from # "withBase" /\ GoesTo(table, arc.via, "withBase")) =>
                arc.via = "sawBase"
          /\ arc.via = "sawBase" =>
                /\ arc.on = "bases"
                /\ GoesTo(table, "sawBase", "withBase")
                /\ MarksGlyph(table, "sawBase")
    /\ [from |-> "Start", on |-> "bases", via |-> "sawBase"] \in arcs
    /\ [from |-> "withBase", on |-> "bases", via |-> "sawBase"] \in arcs
    /\ \A i \in DOMAIN group_names :
          /\ [from |-> "withBase", on |-> MarksClass(group_names[i]),
              via |-> SawMark(group_names[i])] \in arcs
          /\ HasKerningAction(table, SawMark(group_names[i]))

(* C25: in the state machine of the mark-to-base subtable a transition     *)
(* with a kerning action is taken only in state withBase on a mark class,  *)
(* never in Start; withBase is entered from another state only by sawBase, *)
(* which is taken on class bases and marks the glyph; a transition with a  *)
(* kerning action stays in withBase and does not mark, and in withBase a   *)
(* glyph of class bases takes sawBase again.                               *)
C25_AttachOnlyWithBase ==
    (IsAtif /\ returned # <<>>) =>
        LET Holds(table) == AttachOnlyWithBase(table, ArcsOf(table))
        IN  Holds(Table1Of(returned[Len(returned)]))

\* A machine for two mark groups: two arcs attach, two arcs mark a base.
C25_Witness ==
    /\ IsAtif /\ returned # <<>>
    /\ Len(group_names) = 2
    /\ bases # <<>>
    /\ LET Seen(table) ==
              /\ Cardinality(ArcsOf(table)) = 4
              /\ Cardinality({arc \in ArcsOf(table) :
                                 HasKerningAction(table, arc.via)}) = 2
       IN  Seen(Table1Of(returned[1]))

============================================================================
